---- MODULE Spec2Model ----
(***************************************************************************)
(* Discovery-and-capture pipeline of the visual regression system:         *)
(* PageCrawler (normalizePath, isBlacklisted, crawl), the request governor *)
(* setupExternalResourceTimeout, ScreenshotGenerator (tryPageLoad,         *)
(* generateScreenshots), ManifestWriter and generateBaseline of            *)
(* generate-visual-baseline.ts.                                            *)
(*                                                                         *)
(* Strings are sequences of one-character strings, so that the prefix,     *)
(* suffix and substring tests of the code (startsWith, endsWith, includes, *)
(* slice) and the default Array.prototype.sort order are computed          *)
(* character by character.                                                 *)
(***************************************************************************)
EXTENDS Integers, Sequences, FiniteSets, TLC

VARIABLES
    \* ---- one call of PageCrawler.normalizePath ----
    nLink,              \* the raw link passed in
    nResult,            \* the returned path, or NULL
    nPc,                \* "start" | "done"
    \* ---- PageCrawler.config (shared by normalizePath and crawl) ----
    ignoreQueryParams,  \* CrawlConfig.ignoreQueryParams
    blacklistPatterns,  \* CrawlConfig.blacklistPatterns
    \* ---- one governor installation (setupExternalResourceTimeout) ----
    whitelistedDomains, \* CrawlConfig.whitelistedDomains
    blacklistedDomains, \* CrawlConfig.blacklistedDomains
    requestAttempts,    \* Map<string, number>: a function on the URLs that have an entry
    routes,             \* the intercepted requests, in order of interception
    \* ---- one call of PageCrawler.crawl ----
    queue,              \* const queue: string[]
    visited,            \* this.visited
    discoveredPaths,    \* this.discoveredPaths
    site,               \* the pages the server has answered with so far
    navigations,        \* the paths page.goto was called with, in order
    skipped,            \* the paths dequeued and dropped as already visited
    returned,           \* the list crawl returned, NotReturned before
    cPc,                \* "idle" | "loop" | "done"
    crawlPage,          \* the page of the crawl: its governor and its navigations
    \* ---- one run of the generator script ----
    viewports,          \* the validated viewport list of loadCrawlConfig
    paths,              \* the path list handed to capture and to ManifestWriter.write
    files,              \* the .png file names present in the snapshot directory
    manifests,          \* the manifests written by ManifestWriter.write, in order
    errors,             \* const errors: GenerationError[]
    bPc,                \* position in generateBaseline
    \* ---- ScreenshotGenerator.generateScreenshots ----
    results,            \* const results: ScreenshotResult[]
    vIndex,             \* position of the viewport loop
    pIndex,             \* position of the path loop (i + 1)
    sIndex,             \* position of the strategy loop
    capPage,            \* let page: Page | null, 0 for null, else an index of pages
    pages,              \* the pages of the browsing context, in order of creation
    loaded,             \* let loaded
    trail,              \* what was attempted for the pair in progress
    gPc                 \* position in generateScreenshots

vars == <<nLink, nResult, nPc, ignoreQueryParams, blacklistPatterns,
          whitelistedDomains, blacklistedDomains, requestAttempts, routes,
          queue, visited, discoveredPaths, site, navigations, skipped, returned, cPc,
          crawlPage, viewports, paths, files, manifests, errors, bPc,
          results, vIndex, pIndex, sIndex, capPage, pages, loaded, trail, gPc>>

normVars  == <<nLink, nResult, nPc>>
cfgVars   == <<ignoreQueryParams, blacklistPatterns>>
govVars   == <<whitelistedDomains, blacklistedDomains, requestAttempts, routes>>
crawlVars == <<queue, visited, discoveredPaths, site, navigations, skipped, returned, cPc>>
runVars   == <<viewports, paths, files, manifests, errors, bPc>>
genVars   == <<results, vIndex, pIndex, sIndex, capPage, pages, loaded, trail, gPc>>

\* null / undefined: a value no string of the model is equal to
NULL == <<"null">>

\* the value of a list of paths that has not been returned yet
NotReturned == <<NULL>>

-----------------------------------------------------------------------------
(* String primitives of the JavaScript runtime *)

\* F applied to the value of v: v is evaluated once, whatever F does with it
Bind(v, F(_)) == CHOOSE r \in { F(x) : x \in {v} } : TRUE

\* s.startsWith(p)
StartsWith(s0, p) ==
    Bind(s0, LAMBDA s :
        /\ Len(p) <= Len(s)
        /\ SubSeq(s, 1, Len(p)) = p)

\* s.endsWith(p)
EndsWith(s, p) ==
    /\ Len(p) <= Len(s)
    /\ SubSeq(s, Len(s) - Len(p) + 1, Len(s)) = p

\* s.includes(p)
Includes(s, p) ==
    \E i \in 1..(Len(s) - Len(p) + 1) : SubSeq(s, i, i + Len(p) - 1) = p

\* s.slice(0, -n)
SliceEnd(s, n) == SubSeq(s, 1, Len(s) - n)

\* s.indexOf(c) for a one-character c: the first position (1-based), 0 when absent
IndexOf(s0, c) ==
    Bind(s0, LAMBDA s :
        IF \E i \in 1..Len(s) : s[i] = c
        THEN CHOOSE i \in 1..Len(s) : s[i] = c /\ \A j \in 1..(i - 1) : s[j] # c
        ELSE 0)

\* the first position of any character of cs in s, Len(s)+1 when none occurs
FirstOf(s0, cs) ==
    Bind(s0, LAMBDA s :
        IF \E i \in 1..Len(s) : s[i] \in cs
        THEN CHOOSE i \in 1..Len(s) : s[i] \in cs /\ \A j \in 1..(i - 1) : s[j] \notin cs
        ELSE Len(s) + 1)

\* UTF-16 code unit of the characters used
CharCode(c) ==
    CASE c = "#" -> 35
      [] c = "-" -> 45
      [] c = "." -> 46
      [] c = "/" -> 47
      [] c = "8" -> 56
      [] c = ":" -> 58
      [] c = "?" -> 63
      [] c = "@" -> 64
      [] c = "a" -> 97
      [] c = "b" -> 98
      [] c = "d" -> 100
      [] c = "f" -> 102
      [] c = "g" -> 103
      [] c = "h" -> 104
      [] c = "j" -> 106
      [] c = "k" -> 107
      [] c = "q" -> 113
      [] c = "s" -> 115
      [] c = "t" -> 116
      [] c = "v" -> 118
      [] c = "w" -> 119
      [] c = "x" -> 120
      [] c = "y" -> 121
      [] c = "z" -> 122

\* a < b in the order of the default comparator of Array.prototype.sort
\* (code unit by code unit, a proper prefix first)
StrLess(a, b) ==
    \E i \in 1..(Len(b)) :
        /\ i <= Len(a) + 1
        /\ SubSeq(a, 1, i - 1) = SubSeq(b, 1, i - 1)
        /\ \/ i = Len(a) + 1
           \/ /\ i <= Len(a)
              /\ CharCode(a[i]) < CharCode(b[i])

-----------------------------------------------------------------------------
(* new URL(url, base): the WHATWG URL parser on the inputs used here *)

\* process.env.BASE_URL || "https://localhost": scheme "h", host "a", no port
baseUrl == <<"h", ":", "/", "/", "a">>

\* the position of "://" in s, 0 when absent
SchemeSep(s0) ==
    Bind(s0, LAMBDA s :
        IF \E i \in 1..(Len(s) - 2) : SubSeq(s, i, i + 2) = <<":", "/", "/">>
        THEN CHOOSE i \in 1..(Len(s) - 2) :
                /\ SubSeq(s, i, i + 2) = <<":", "/", "/">>
                /\ \A j \in 1..(i - 1) : SubSeq(s, j, j + 2) # <<":", "/", "/">>
        ELSE 0)

\* path, query and fragment of the part of a URL after its authority
SplitTail(t0) ==
    Bind(t0, LAMBDA t :
    Bind(FirstOf(t, {"?", "#"}), LAMBDA pEnd :
    Bind(SubSeq(t, pEnd, Len(t)), LAMBDA rest :
    Bind(IF rest # <<>> /\ rest[1] = "?" THEN FirstOf(rest, {"#"}) ELSE 1, LAMBDA qEnd :
        [pathname |-> IF pEnd = 1 THEN <<"/">> ELSE SubSeq(t, 1, pEnd - 1),
         search   |-> SubSeq(rest, 1, qEnd - 1),
         hash     |-> SubSeq(rest, qEnd, Len(rest))]))))

Digits == {"8"}

\* host and port of "host" or "host:port"
SplitHostPort(hp0) ==
    Bind(hp0, LAMBDA hp :
    Bind(IndexOf(hp, ":"), LAMBDA colon :
        [host |-> IF colon = 0 THEN hp ELSE SubSeq(hp, 1, colon - 1),
         port |-> IF colon = 0 THEN <<>> ELSE SubSeq(hp, colon + 1, Len(hp))]))

\* an absolute URL "scheme://authority tail"; ok = FALSE stands for the
\* TypeError: Invalid URL that new URL throws
ParseAbsolute(s0) ==
    Bind(s0, LAMBDA s :
    Bind(SchemeSep(s), LAMBDA sep :
    Bind(SubSeq(s, sep + 3, Len(s)), LAMBDA after :
    Bind(FirstOf(after, {"/", "?", "#"}), LAMBDA aEnd :
    Bind(SubSeq(after, 1, aEnd - 1), LAMBDA auth :
    Bind(IndexOf(auth, "@"), LAMBDA at :
    Bind(SplitHostPort(SubSeq(auth, at + 1, Len(auth))), LAMBDA hp :
    Bind(SplitTail(SubSeq(after, aEnd, Len(after))), LAMBDA tail :
        IF sep = 1 \/ hp.host = <<>> \/ \E i \in 1..Len(hp.port) : hp.port[i] \notin Digits
        THEN [ok |-> FALSE]
        ELSE [ok       |-> TRUE,
              scheme   |-> SubSeq(s, 1, sep - 1),
              userinfo |-> SubSeq(auth, 1, at),
              host     |-> hp.host,
              port     |-> hp.port,
              pathname |-> tail.pathname,
              search   |-> tail.search,
              hash     |-> tail.hash]))))))))

\* the directory of a path: the path up to and including its last "/"
Directory(path0) ==
    Bind(path0, LAMBDA path :
        SubSeq(path, 1, CHOOSE i \in 1..Len(path) :
                            /\ path[i] = "/"
                            /\ \A j \in (i + 1)..Len(path) : path[j] # "/"))

\* url resolved against the parsed base b: an absolute path, a query or
\* fragment only, or a path relative to the directory of the base path
ResolveRelative(url0, b0) ==
    Bind(url0, LAMBDA url :
    Bind(b0, LAMBDA b :
        IF ~b.ok \/ url = <<>> THEN b
        ELSE Bind(SplitTail(IF url[1] = "/" THEN url
                            ELSE IF url[1] \in {"?", "#"} THEN b.pathname \o url
                            ELSE Directory(b.pathname) \o url), LAMBDA t :
                [b EXCEPT !.pathname = t.pathname, !.search = t.search, !.hash = t.hash])))

\* new URL(url, base); ok = FALSE stands for the TypeError it throws
ParseURL(url0, base) ==
    Bind(url0, LAMBDA url :
        IF SchemeSep(url) # 0 /\ SchemeSep(url) < FirstOf(url, {"/", "?", "#"})
        THEN ParseAbsolute(url)
        ELSE ResolveRelative(url, ParseAbsolute(base)))

\* URL.href: the serialisation
Href(u0) ==
    Bind(u0, LAMBDA u :
        u.scheme \o <<":", "/", "/">> \o u.userinfo \o u.host
          \o (IF u.port = <<>> THEN <<>> ELSE <<":">> \o u.port)
          \o u.pathname \o u.search \o u.hash)

\* URL.origin as the tuple (scheme, host, port)
Origin(u) == <<u.scheme, u.host, u.port>>

-----------------------------------------------------------------------------
(* PageCrawler.isBlacklisted and PageCrawler.normalizePath *)

\* a wildcard pattern compared as an exact one
isBlacklisted_NoWildcard(urlPath, patterns) ==
    \E k \in 1..Len(patterns) : urlPath = patterns[k]

isBlacklisted(urlPath0, patterns) ==
    Bind(urlPath0, LAMBDA urlPath :
        \E k \in 1..Len(patterns) :
            IF EndsWith(patterns[k], <<"/", "*">>)
            THEN StartsWith(urlPath, SliceEnd(patterns[k], 2))
            ELSE urlPath = patterns[k])

normalizePath(url, base, ignoreQ, patterns) ==
    Bind(ParseURL(url, base), LAMBDA parsed0 :
        IF ~parsed0.ok THEN NULL                            \* catch { return null }
        ELSE IF ~StartsWith(Href(parsed0), base) THEN NULL
        ELSE Bind(IF ignoreQ THEN [parsed0 EXCEPT !.search = <<>>] ELSE parsed0, LAMBDA parsed :
             Bind(IF parsed.pathname # <<"/">> /\ EndsWith(parsed.pathname, <<"/">>)
                  THEN SliceEnd(parsed.pathname, 1)
                  ELSE parsed.pathname, LAMBDA urlPath :
                 IF isBlacklisted(urlPath, patterns) THEN NULL ELSE urlPath)))

-----------------------------------------------------------------------------
(* The links and configurations normalizePath is applied to *)

Root == <<"/">>

\* scheme://authority parts: the base origin itself, a host that merely begins
\* with the base host, another host, the base host on another port, the base
\* host as user name of another host, an invalid port
LinkOrigins ==
    { baseUrl,
      <<"h", ":", "/", "/", "a", "b">>,
      <<"h", ":", "/", "/", "b">>,
      <<"h", ":", "/", "/", "a", ":", "8">>,
      <<"h", ":", "/", "/", "a", "@", "b">>,
      <<"h", ":", "/", "/", "a", ":", "b">> }

LinkTails ==
    { <<>>, <<"/">>, <<"/", "x">>, <<"/", "x", "/">>, <<"/", "x", "?", "q">>,
      <<"/", "x", "/", "?", "q">>, <<"/", "k">>, <<"/", "k", "/", "x">>,
      <<"/", "x", "#", "f">>, <<"/", "x", "/", "/">> }

RelativeLinks ==
    { <<"/", "x">>, <<"/", "x", "/">>, <<"x">>, <<"?", "q">>, <<"#", "f">>,
      <<"/", "k", "/">> }

\* new URL throws on these: no host
MalformedLinks == { <<"h", ":", "/", "/">> }

RawLinks ==
    { o \o t : o \in LinkOrigins, t \in LinkTails } \cup RelativeLinks \cup MalformedLinks

PatternLists ==
    { <<>>,
      << <<"/", "k", "/", "*">> >>,
      << <<"/", "k">> >>,
      << <<"/", "x">>, <<"/", "k", "/", "*">> >>,
      << <<"/", "*">> >> }

-----------------------------------------------------------------------------
(* Values of the variables of the parts that a specification does not run *)

EmptyMap == [u \in {} |-> 0]

\* const page = await context.newPage(): no route handler, no navigation yet
NewCrawlPage == [governor |-> FALSE, navigated |-> {}]

IdleNorm  == nLink = <<>> /\ nResult = NULL /\ nPc = "idle"
IdleGov   == /\ whitelistedDomains = <<>>
             /\ blacklistedDomains = <<>>
             /\ requestAttempts = EmptyMap
             /\ routes = <<>>
IdleCrawl == /\ queue = <<>>
             /\ visited = {}
             /\ discoveredPaths = {}
             /\ site = EmptyMap
             /\ navigations = <<>>
             /\ skipped = {}
             /\ returned = NotReturned
             /\ cPc = "idle"
             /\ crawlPage = NewCrawlPage
IdleRun   == /\ viewports = <<>>
             /\ paths = <<>>
             /\ files = {}
             /\ manifests = <<>>
             /\ errors = <<>>
             /\ bPc = "idle"
IdleGen   == /\ results = <<>>
             /\ vIndex = 0
             /\ pIndex = 0
             /\ sIndex = 0
             /\ capPage = 0
             /\ pages = <<>>
             /\ loaded = FALSE
             /\ trail = <<>>
             /\ gPc = "idle"

-----------------------------------------------------------------------------
(* Specification SpecNorm: one call of normalizePath on every link *)

InitNorm ==
    /\ nLink \in RawLinks
    /\ nResult = NULL
    /\ nPc = "start"
    /\ ignoreQueryParams \in BOOLEAN
    /\ blacklistPatterns \in PatternLists
    /\ IdleGov
    /\ IdleCrawl
    /\ IdleRun
    /\ IdleGen

CallNormalizePath ==
    /\ nPc = "start"
    /\ nResult' = normalizePath(nLink, baseUrl, ignoreQueryParams, blacklistPatterns)
    /\ nPc' = "done"
    /\ UNCHANGED <<nLink, cfgVars, govVars, crawlVars, crawlPage, runVars, genVars>>

NextNorm == CallNormalizePath

SpecNorm == InitNorm /\ [][NextNorm]_vars

\* C1: every raw link whose resolved absolute URL lies outside the base origin
\* (scheme, host and port compared) is rejected by normalizePath.
C1_CrossOriginRejected ==
    nPc = "done" =>
        Bind(ParseURL(nLink, baseUrl), LAMBDA u :
            (u.ok /\ Origin(u) # Origin(ParseURL(baseUrl, baseUrl))) => nResult = NULL)

-----------------------------------------------------------------------------
(* setupExternalResourceTimeout: the request governor of one page *)

maxAttempts == 2

\* the most routes one installation intercepts in the model
MaxRoutes == 3

DataPrefix == <<"d", "a", "t", "a", ":">>

\* CrawlConfig.whitelistedDomains / blacklistedDomains
Dom_w == <<"w">>
Dom_k == <<"k">>

\* The URLs the page requests: same-origin (its path contains the blacklisted
\* domain), a data: URL, a foreign host that begins with the base host and
\* contains the blacklisted domain, a whitelisted host, a host matching both
\* lists (blacklisted only, when nothing is whitelisted), and a foreign host
\* on neither list.
Url_same  == <<"h", ":", "/", "/", "a", "/", "k">>
Url_data  == <<"d", "a", "t", "a", ":", "x">>
Url_ext   == <<"h", ":", "/", "/", "a", "k", "/", "t">>
Url_white == <<"h", ":", "/", "/", "w", "/", "v">>
Url_both  == <<"h", ":", "/", "/", "k", ".", "w", "/", "v">>
Url_f     == <<"h", ":", "/", "/", "f", "/", "j">>

\* the domain lists of the configurations: the defaults with and without a
\* blacklisted domain, and a configuration without whitelisted domains
GovConfigs ==
    { [whitelistedDomains |-> <<Dom_w>>, blacklistedDomains |-> <<>>],
      [whitelistedDomains |-> <<Dom_w>>, blacklistedDomains |-> <<Dom_k>>],
      [whitelistedDomains |-> <<>>,      blacklistedDomains |-> <<Dom_k>>] }

RequestUrls ==
    { Url_same, Url_data, Url_ext, Url_white, Url_both, Url_f }

\* domains.some((domain) => url.includes(domain))
SomeIncludes(domains, url) == \E k \in 1..Len(domains) : Includes(url, domains[k])

\* requestAttempts.get(url) || 0
GetAttempts(m, url) == IF url \in DOMAIN m THEN m[url] ELSE 0

\* requestAttempts.set(url, n)
MapSet(m, url, n) == [u \in DOMAIN m \cup {url} |-> IF u = url THEN n ELSE m[u]]

\* requestAttempts.delete(url)
MapDelete(m, url) == [u \in DOMAIN m \ {url} |-> m[u]]

\* mutant: the ceiling test off by one (attempts > maxAttempts)
RouteRule_CeilingOffByOne(url, base, white, black, attempts) ==
    IF StartsWith(url, base) \/ StartsWith(url, DataPrefix) THEN "sameOrigin"
    ELSE IF SomeIncludes(black, url) THEN "blacklisted"
    ELSE IF SomeIncludes(white, url) THEN "whitelisted"
    ELSE IF GetAttempts(attempts, url) > maxAttempts THEN "ceiling"
    ELSE "tracked"

\* mutant: the whitelist branch missing
RouteRule_NoWhitelist(url, base, white, black, attempts) ==
    IF StartsWith(url, base) \/ StartsWith(url, DataPrefix) THEN "sameOrigin"
    ELSE IF SomeIncludes(black, url) THEN "blacklisted"
    ELSE IF GetAttempts(attempts, url) >= maxAttempts THEN "ceiling"
    ELSE "tracked"

\* The branch the route handler takes for a URL
RouteRule(url, base, white, black, attempts) ==
    IF StartsWith(url, base) \/ StartsWith(url, DataPrefix) THEN "sameOrigin"
    ELSE IF SomeIncludes(black, url) THEN "blacklisted"
    ELSE IF SomeIncludes(white, url) THEN "whitelisted"
    ELSE IF GetAttempts(attempts, url) >= maxAttempts THEN "ceiling"
    ELSE "tracked"

\* What the handler does to the route in each branch:
\* (HandledRoute_NoTimer is the mutant that never calls setTimeout)
\*   continued   - route.continue() was called
\*   abortReason - the error code route.abort() was called with, "none" if never
\*   timer       - "none" | "armed" | "cleared" | "fired"
\*   promise     - of the tracked route.continue(): "none" | "pending" |
\*                 "fulfilled" | "rejected"
HandledRoute_NoTimer(url, rule) ==
    [url         |-> url,
     rule        |-> rule,
     continued   |-> rule \in {"sameOrigin", "whitelisted", "tracked"},
     abortReason |-> CASE rule = "blacklisted" -> "blockedbyclient"
                       [] rule = "ceiling"     -> "timedout"
                       [] OTHER                -> "none",
     timer       |-> "none",
     promise     |-> IF rule = "tracked" THEN "pending" ELSE "none"]

HandledRoute(url, rule) ==
    [url         |-> url,
     rule        |-> rule,
     continued   |-> rule \in {"sameOrigin", "whitelisted", "tracked"},
     abortReason |-> CASE rule = "blacklisted" -> "blockedbyclient"
                       [] rule = "ceiling"     -> "timedout"
                       [] OTHER                -> "none",
     timer       |-> IF rule = "tracked" THEN "armed" ELSE "none",
     promise     |-> IF rule = "tracked" THEN "pending" ELSE "none"]

\* mutant: the counter is stored without the increment
NextAttempts_NoIncrement(attempts) == attempts

\* requestAttempts.set(url, attempts + 1)
NextAttempts(attempts) == attempts + 1

\* page.route("**/*", (route) => { ... }) for one intercepted request
RouteHandler(url) ==
    /\ Len(routes) < MaxRoutes
    /\ LET rule == RouteRule(url, baseUrl, whitelistedDomains, blacklistedDomains,
                             requestAttempts)
       IN  /\ routes' = Append(routes, HandledRoute(url, rule))
           /\ requestAttempts' =
                 IF rule = "tracked"
                 THEN MapSet(requestAttempts, url,
                             NextAttempts(GetAttempts(requestAttempts, url)))
                 ELSE requestAttempts
    /\ UNCHANGED <<whitelistedDomains, blacklistedDomains, normVars, cfgVars, crawlVars, crawlPage, runVars, genVars>>

\* clearTimeout(timer): no effect on a timer that has fired
ClearTimeout(t) == IF t = "armed" THEN "cleared" ELSE t

\* mutant: the .then callback without requestAttempts.delete(url)
AttemptsAfterFulfilled_NoDelete(m, url) == m

\* the attempt table after the .then callback of route.continue()
AttemptsAfterFulfilled(m, url) == MapDelete(m, url)

\* .then(() => { clearTimeout(timer); requestAttempts.delete(url); })
ContinueFulfilled(i) ==
    /\ i \in 1..Len(routes)
    /\ routes[i].promise = "pending"
    /\ routes' = [routes EXCEPT ![i].promise = "fulfilled",
                                ![i].timer = ClearTimeout(routes[i].timer)]
    /\ requestAttempts' = AttemptsAfterFulfilled(requestAttempts, routes[i].url)
    /\ UNCHANGED <<whitelistedDomains, blacklistedDomains, normVars, cfgVars, crawlVars, crawlPage, runVars, genVars>>

\* .catch(() => { clearTimeout(timer); })
ContinueRejected(i) ==
    /\ i \in 1..Len(routes)
    /\ routes[i].promise = "pending"
    /\ routes' = [routes EXCEPT ![i].promise = "rejected",
                                ![i].timer = ClearTimeout(routes[i].timer)]
    /\ UNCHANGED <<requestAttempts, whitelistedDomains, blacklistedDomains,
                   normVars, cfgVars, crawlVars, crawlPage, runVars, genVars>>

\* setTimeout(() => { route.abort("timedout").catch(() => {}); }, timeoutMs)
TimerFires(i) ==
    /\ i \in 1..Len(routes)
    /\ routes[i].timer = "armed"
    /\ routes' = [routes EXCEPT ![i].timer = "fired",
                                ![i].abortReason = "timedout"]
    /\ UNCHANGED <<requestAttempts, whitelistedDomains, blacklistedDomains,
                   normVars, cfgVars, crawlVars, crawlPage, runVars, genVars>>

InitGov ==
    /\ \E c \in GovConfigs : /\ whitelistedDomains = c.whitelistedDomains
                             /\ blacklistedDomains = c.blacklistedDomains
    /\ requestAttempts = EmptyMap
    /\ routes = <<>>
    /\ IdleNorm
    /\ ignoreQueryParams = TRUE
    /\ blacklistPatterns = <<>>
    /\ IdleCrawl
    /\ IdleRun
    /\ IdleGen

NextGov ==
    \/ \E url \in RequestUrls : RouteHandler(url)
    \/ \E i \in 1..MaxRoutes : ContinueFulfilled(i)
    \/ \E i \in 1..MaxRoutes : ContinueRejected(i)
    \/ \E i \in 1..MaxRoutes : TimerFires(i)

SpecGov == InitGov /\ [][NextGov]_vars

\* The timer of every route is fair: setTimeout fires unless it is cleared.
SpecGovLive ==
    SpecGov /\ \A i \in 1..MaxRoutes : WF_vars(TimerFires(i))

-----------------------------------------------------------------------------
(* Properties of the governor *)

\* the request is same-origin: scheme, host and port of its URL are the base origin's
SameOriginUrl(url) ==
    /\ ~StartsWith(url, DataPrefix)
    /\ Bind(ParseURL(url, baseUrl), LAMBDA u :
            u.ok /\ Origin(u) = Origin(ParseURL(baseUrl, baseUrl)))

\* the first matching rule of the policy, in its stated order
ExpectedRule(url) ==
    IF SameOriginUrl(url) \/ StartsWith(url, DataPrefix) THEN "sameOrigin"
    ELSE IF SomeIncludes(blacklistedDomains, url) THEN "blacklisted"
    ELSE IF SomeIncludes(whitelistedDomains, url) THEN "whitelisted"
    ELSE "foreign"

\* C2: the outcome of every intercepted request is that of the first matching
\* rule in the order same-origin or data: (continue), blacklisted (abort as
\* blocked), whitelisted (continue), otherwise tracked by URL.
C2_FirstMatchingRule ==
    \A i \in 1..Len(routes) :
        LET r == routes[i]
            e == ExpectedRule(r.url)
        IN  /\ e = "sameOrigin"  => r.continued /\ r.abortReason = "none" /\ r.timer = "none"
            /\ e = "blacklisted" => ~r.continued /\ r.abortReason = "blockedbyclient"
            /\ e = "whitelisted" => r.continued /\ r.abortReason = "none" /\ r.timer = "none"
            /\ e = "foreign"     => r.rule \in {"tracked", "ceiling"}

\* the route intercepted by this step, when the step is a RouteHandler step
IsHandlerStep == Len(routes') = Len(routes) + 1
NewRoute == routes'[Len(routes')]

\* C3 (as stated): within one installation the third request for the same
\* foreign URL is aborted immediately as timed out.
C3_ThirdRequestAborted ==
    \A i \in 1..Len(routes) :
        ( /\ routes[i].rule \in {"tracked", "ceiling"}
          /\ Cardinality({ j \in 1..(i - 1) : routes[j].url = routes[i].url }) >= maxAttempts )
        => routes[i].rule = "ceiling" /\ routes[i].abortReason = "timedout"

\* C3 (amended): a request for a URL whose attempt counter stands at the ceiling
\* is aborted immediately as timed out: it is never continued, starts no timer
\* and leaves the attempt table unchanged.
C3_CeilingAborts ==
    [][ (IsHandlerStep /\ GetAttempts(requestAttempts, NewRoute.url) >= maxAttempts)
        => /\ NewRoute.abortReason = "timedout"
           /\ ~NewRoute.continued
           /\ NewRoute.timer = "none"
           /\ NewRoute.promise = "none"
           /\ requestAttempts' = requestAttempts ]_vars

C3_Witness ==
    \E i \in 1..Len(routes) :
        /\ routes[i].rule = "ceiling"
        /\ routes[i].abortReason = "timedout"
        /\ GetAttempts(requestAttempts, routes[i].url) = maxAttempts
        /\ Cardinality({ j \in 1..(i - 1) : routes[j].url = routes[i].url }) = 2

\* C4 (as stated): a request to a whitelisted domain is never aborted.
C4_WhitelistedNeverAborted ==
    \A i \in 1..Len(routes) :
        SomeIncludes(whitelistedDomains, routes[i].url) => routes[i].abortReason = "none"

\* C4 (amended): a request whose URL matches a whitelisted domain and no
\* blacklisted domain is continued and never aborted, starts no timer, and its
\* interception leaves the attempt table unchanged.
C4_WhitelistedOnlyNeverAborted ==
    [][ \A i \in 1..Len(routes') :
          ( /\ SomeIncludes(whitelistedDomains, routes'[i].url)
            /\ ~SomeIncludes(blacklistedDomains, routes'[i].url) )
          => /\ routes'[i].continued
             /\ routes'[i].abortReason = "none"
             /\ routes'[i].timer = "none"
             /\ i > Len(routes) => requestAttempts' = requestAttempts ]_vars

C4_Witness ==
    /\ Len(routes) = MaxRoutes
    /\ \A i \in 1..Len(routes) :
          /\ routes[i].url = Url_white
          /\ routes[i].rule = "whitelisted"
          /\ routes[i].continued

\* C5: a request whose continuation has completed is never aborted afterwards,
\* and the completion callback of a request that the timer has aborted does not
\* clear the attempt counter.
C5_TimerCompletionRace ==
    [][ \A i \in 1..Len(routes) :
          /\ routes[i].promise = "fulfilled"
                => routes'[i].abortReason = routes[i].abortReason
          /\ ( /\ routes[i].timer = "fired"
               /\ routes[i].abortReason = "timedout"
               /\ routes[i].promise = "pending"
               /\ routes'[i].promise = "fulfilled" )
                => requestAttempts' = requestAttempts ]_vars

\* C6: when the continuation of a tracked request completes while its timer is
\* armed, the timer is cleared and the URL's entry is removed; a request for a
\* URL without an entry is continued with a counter of 1.
C6_CompletionClearsCounter ==
    [][ /\ \A i \in 1..Len(routes) :
              ( /\ routes[i].timer = "armed"
                /\ routes[i].promise = "pending"
                /\ routes'[i].promise = "fulfilled" )
              => /\ routes'[i].timer = "cleared"
                 /\ routes'[i].abortReason = "none"
                 /\ routes[i].url \notin DOMAIN requestAttempts'
        /\ ( /\ IsHandlerStep
             /\ NewRoute.rule \in {"tracked", "ceiling"}
             /\ NewRoute.url \notin DOMAIN requestAttempts )
           => /\ NewRoute.rule = "tracked"
              /\ NewRoute.continued
              /\ requestAttempts'[NewRoute.url] = 1 ]_vars

C6_Witness ==
    \E i, j \in 1..Len(routes) :
        /\ i < j
        /\ routes[i].url = routes[j].url
        /\ routes[i].promise = "fulfilled"
        /\ routes[i].timer = "cleared"
        /\ routes[j].rule = "tracked"
        /\ routes[j].promise = "pending"
        /\ GetAttempts(requestAttempts, routes[j].url) = 1

\* C7: every tracked request is eventually settled: its continuation completes
\* (fulfilled or rejected) or its timer fires and aborts it as timed out.
C7_TrackedEventuallySettled ==
    \A i \in 1..MaxRoutes :
        (i <= Len(routes) /\ routes[i].rule = "tracked")
          ~> ( /\ i <= Len(routes)
               /\ \/ routes[i].promise \in {"fulfilled", "rejected"}
                  \/ routes[i].timer = "fired" /\ routes[i].abortReason = "timedout" )

C7_Witness ==
    \E i \in 1..Len(routes) :
        /\ routes[i].rule = "tracked"
        /\ routes[i].promise = "pending"
        /\ routes[i].timer = "fired"
        /\ routes[i].abortReason = "timedout"

-----------------------------------------------------------------------------
(* PageCrawler.crawl *)

\* the most anchors on one page, the longest queue and navigation log kept
MaxLinks == 2
MaxQueue == 5
MaxNavigations == 5

\* The hrefs found on the pages (HTMLAnchorElement.href is absolute): a path
\* with a trailing slash, a path with two trailing slashes and a query, and a
\* link to a host that begins with the base host.
LinkPool ==
    << <<"h", ":", "/", "/", "a", "/", "x", "/">>,
       <<"h", ":", "/", "/", "a", "/", "y", "/", "/", "?", "q">>,
       <<"h", ":", "/", "/", "a", "b", "/", "z">> >>

\* the links of LinkPool at the positions I, in the order of LinkPool
SubList(I) ==
    LET n == Cardinality(I)
        f == CHOOSE g \in [1..n -> I] : \A a, b \in 1..n : a < b => g[a] < g[b]
    IN  [k \in 1..n |-> LinkPool[f[k]]]

LinkLists ==
    { SubList(I) : I \in { J \in SUBSET (1..Len(LinkPool)) : Cardinality(J) <= MaxLinks } }

\* the anchors of a document that the crawl never reads: none, or one link
FailedPageLinks == { <<>>, <<LinkPool[1]>> }

\* What the server and the page answer to page.goto and page.$$eval, with the
\* anchors of the document that ends up in the page:
\*   gotoThrows - page.goto rejects (timeout, network error)
\*   null       - page.goto resolves to null
\*   notOk      - response.ok() is false (an error page, which may carry links)
\*   evalThrows - the response is ok and page.$$eval rejects
\*   ok         - the response is ok and page.$$eval returns links
CrawlPages ==
    { [kind |-> k, links |-> l] :
        k \in {"gotoThrows", "null", "notOk", "evalThrows"}, l \in FailedPageLinks }
      \cup { [kind |-> "ok", links |-> l] : l \in LinkLists }

\* mutant: every navigation counts as a success response
ResponseOk_Always(pg) == TRUE

\* page.goto resolved and !(!response || !response.ok())
ResponseOk(pg) == pg.kind \in {"ok", "evalThrows"}

\* the configurations of a crawl: no exclusion pattern, the pattern of a
\* linked page, and the pattern of the root
CrawlConfigs ==
    { [ignoreQueryParams |-> q, blacklistPatterns |-> b] :
        q \in BOOLEAN, b \in { <<>>, << <<"/", "x">> >> } }
      \cup { [ignoreQueryParams |-> TRUE, blacklistPatterns |-> << Root >>] }

\* mutant: the test of the visited set always fails
AlreadyVisited_Never(v, path) == FALSE

\* this.visited.has(currentPath)
AlreadyVisited(v, path) == path \in v

\* mutant: the dequeued path is not added to the visited set
MarkVisited_NoAdd(v, path) == v

\* this.visited.add(currentPath)
MarkVisited(v, path) == v \cup {path}

\* mutant: the front of the queue is read and not removed
AfterShift_NoShift(q) == q

\* the queue after queue.shift()
AfterShift(q) == Tail(q)

\* mutant: the new paths are put at the front of the queue
Push_Front(q, pushed) == pushed \o q

\* queue.push(normalizedPath), for each pushed path in order
Push(q, pushed) == q \o pushed

\* for (const link of links) { ... queue.push(normalizedPath) }
EnqueueLinks(q, links, v, ignoreQ, patterns) ==
    LET normalized == [k \in 1..Len(links) |->
                          normalizePath(links[k], baseUrl, ignoreQ, patterns)]
        Pushed(n) == n # NULL /\ n # <<>> /\ n \notin v
    IN  Push(q, SelectSeq(normalized, Pushed))

\* the least string of a non-empty set in the order of StrLess
MinStr(S) == CHOOSE a \in S : \A b \in S \ {a} : StrLess(a, b)

RECURSIVE SortPaths(_)
\* Array.from(this.discoveredPaths).sort()
SortPaths(S0) ==
    Bind(S0, LAMBDA S :
        IF S = {} THEN <<>>
        ELSE Bind(MinStr(S), LAMBDA m : <<m>> \o SortPaths(S \ {m})))

\* page.goto on the page of the crawl: the navigation runs with the route
\* handler of the governor ("governed") or without one ("bare")
Navigated(pg) ==
    [pg EXCEPT !.navigated = @ \cup {IF pg.governor THEN "governed" ELSE "bare"}]

\* setupExternalResourceTimeout(page, ...); const queue: string[] = ["/"]
CrawlStart ==
    /\ cPc = "idle"
    /\ crawlPage' = [crawlPage EXCEPT !.governor = TRUE]
    /\ queue' = <<Root>>
    /\ cPc' = "loop"
    /\ UNCHANGED <<visited, discoveredPaths, site, navigations, skipped, returned,
                   normVars, cfgVars, govVars, runVars, genVars>>

\* if (this.visited.has(currentPath)) continue;
CrawlSkip ==
    /\ cPc = "loop"
    /\ queue # <<>>
    /\ AlreadyVisited(visited, Head(queue))
    /\ queue' = AfterShift(queue)
    /\ skipped' = skipped \cup {Head(queue)}
    /\ UNCHANGED <<visited, discoveredPaths, site, navigations, returned, cPc, crawlPage,
                   normVars, cfgVars, govVars, runVars, genVars>>

\* one iteration that navigates: visited.add, page.goto, response test,
\* discoveredPaths.add, $$eval, the loop over the links; try/catch around it
CrawlVisit(page) ==
    /\ cPc = "loop"
    /\ queue # <<>>
    /\ ~AlreadyVisited(visited, Head(queue))
    /\ LET currentPath == Head(queue)
           v           == MarkVisited(visited, currentPath)
       IN  /\ visited' = v
           /\ crawlPage' = Navigated(crawlPage)
           /\ navigations' = IF Len(navigations) < MaxNavigations
                             THEN Append(navigations, currentPath)
                             ELSE navigations
           /\ site' = MapSet(site, currentPath, page)
           /\ discoveredPaths' = IF ResponseOk(page)
                                 THEN discoveredPaths \cup {currentPath}
                                 ELSE discoveredPaths
           /\ queue' = IF page.kind = "ok"
                       THEN EnqueueLinks(AfterShift(queue), page.links, v,
                                         ignoreQueryParams, blacklistPatterns)
                       ELSE AfterShift(queue)
    /\ Len(queue') <= MaxQueue
    /\ UNCHANGED <<skipped, returned, cPc, normVars, cfgVars, govVars, runVars, genVars>>

\* return Array.from(this.discoveredPaths).sort();
CrawlReturn ==
    /\ cPc = "loop"
    /\ queue = <<>>
    /\ returned' = SortPaths(discoveredPaths)
    /\ cPc' = "done"
    /\ UNCHANGED <<queue, visited, discoveredPaths, site, navigations, skipped, crawlPage,
                   normVars, cfgVars, govVars, runVars, genVars>>

InitCrawl ==
    /\ \E c \in CrawlConfigs : /\ ignoreQueryParams = c.ignoreQueryParams
                               /\ blacklistPatterns = c.blacklistPatterns
    /\ IdleCrawl
    /\ IdleNorm
    /\ IdleGov
    /\ IdleRun
    /\ IdleGen

NextCrawl ==
    \/ CrawlStart
    \/ CrawlSkip
    \/ \E page \in CrawlPages : CrawlVisit(page)
    \/ CrawlReturn

SpecCrawl == InitCrawl /\ [][NextCrawl]_vars

\* The loop is synchronous between awaits and every navigation resolves or
\* rejects: the crawl takes its next step whenever it has one.
SpecCrawlLive == SpecCrawl /\ WF_vars(NextCrawl)

-----------------------------------------------------------------------------
(* Properties of the crawl *)

\* C8: no path is navigated to twice in one crawl, and the returned list is
\* the discovered set without duplicates in ascending lexicographic order.
C8_NoRevisitSortedResult ==
    /\ \A i, j \in 1..Len(navigations) : i # j => navigations[i] # navigations[j]
    /\ cPc = "done" =>
          /\ { returned[i] : i \in 1..Len(returned) } = discoveredPaths
          /\ \A i, j \in 1..Len(returned) : i < j => StrLess(returned[i], returned[j])

C8_Witness ==
    /\ cPc = "done"
    /\ Len(returned) >= 3
    /\ skipped # {}

\* the canonical path a link leads to when it is in scope (same scheme, host
\* and port as the base) and not excluded, NULL otherwise
InScopePath(link) ==
    Bind(ParseURL(link, baseUrl), LAMBDA u :
        IF ~u.ok THEN NULL
        ELSE IF Origin(u) # Origin(ParseURL(baseUrl, baseUrl)) THEN NULL
        ELSE Bind(IF u.pathname # Root /\ EndsWith(u.pathname, <<"/">>)
                  THEN SliceEnd(u.pathname, 1)
                  ELSE u.pathname, LAMBDA path :
                 IF isBlacklisted(path, blacklistPatterns) THEN NULL ELSE path))

\* the paths reachable from S by following the hyperlinks of the pages served
RECURSIVE ReachableFrom(_)
ReachableFrom(S0) ==
    Bind(S0, LAMBDA S :
    Bind(S \cup (UNION { { InScopePath(site[path].links[k]) : k \in 1..Len(site[path].links) } :
                           path \in { q \in S \cap DOMAIN site : site[q].kind = "ok" } }
                   \ {NULL}), LAMBDA next :
        IF next = S THEN S ELSE ReachableFrom(next)))

\* C9: when every page answers with a success status and nothing throws, crawl
\* returns exactly the in-scope, non-excluded paths reachable from "/" by
\* following hyperlinks.
C9_ReturnsReachableSet ==
    (cPc = "done" /\ \A path \in DOMAIN site : site[path].kind = "ok")
      => returned = SortPaths({ path \in ReachableFrom({Root}) :
                                  ~isBlacklisted(path, blacklistPatterns) })

\* C10: the crawl loop terminates: the queue becomes empty and crawl returns.
C10_CrawlTerminates ==
    <>(cPc = "done" /\ queue = <<>> /\ returned # NotReturned)

C10_Witness ==
    /\ cPc = "done"
    /\ queue = <<>>
    /\ { site[path].kind : path \in DOMAIN site } = {"ok", "notOk", "gotoThrows"}
    /\ skipped # {}

\* the outcomes of a crawl navigation that failed: page.goto threw, resolved
\* to no response, or the response was not a success
FailedKinds == {"gotoThrows", "null", "notOk"}

\* C11: a crawl navigation that returns no response or a non-success status,
\* or that throws, abandons only that path: the path is in visited and not in
\* discovered (nor in the returned list), none of its links is enqueued, no
\* GenerationError is recorded, and the loop goes on with the next queued path.
C11_FailedNavigationAbandonsPath ==
    /\ [](\A path \in DOMAIN site :
            site[path].kind \in FailedKinds =>
                /\ path \in visited
                /\ path \notin discoveredPaths
                /\ \A i \in 1..Len(returned) : returned[i] # path)
    /\ [][ ( /\ cPc = "loop"
             /\ queue # <<>>
             /\ visited' # visited
             /\ Head(queue) \in DOMAIN site'
             /\ site'[Head(queue)].kind \in FailedKinds )
           => /\ visited' = visited \cup {Head(queue)}
              /\ discoveredPaths' = discoveredPaths
              /\ queue' = Tail(queue)
              /\ errors' = errors
              /\ cPc' = "loop" ]_vars

C11_Witness ==
    /\ cPc = "done"
    /\ Len(navigations) >= 3
    /\ site[navigations[2]].kind = "notOk"
    /\ site[navigations[2]].links # <<>>
    /\ \A k \in 1..Len(site[navigations[2]].links) :
          normalizePath(site[navigations[2]].links[k], baseUrl,
                        ignoreQueryParams, blacklistPatterns) \notin visited \cup {NULL}

\* C12: in every reachable crawl state discovered is a subset of visited.
C12_DiscoveredSubsetVisited == discoveredPaths \subseteq visited

C12_Witness ==
    /\ cPc = "loop"
    /\ queue # <<>>
    /\ discoveredPaths # {}
    /\ visited \ discoveredPaths # {}

-----------------------------------------------------------------------------
(* The generator script: what discovery and the configuration hand to capture *)

\* the longest path list handed to capture
MaxPaths == 2

\* the validated viewports (validateViewports: the names are pairwise distinct)
ViewportLists ==
    { << [name |-> <<"m">>] >>,
      << [name |-> <<"m">>], [name |-> <<"d">>] >> }

\* the paths of the site, in ascending order
PathPool ==
    << Root, <<"/", "a", "-", "b">>, <<"/", "a", "/", "b">> >>

PathSet == { PathPool[k] : k \in 1..Len(PathPool) }

\* discoveredPaths of the script: the sorted result of crawl, which is empty or
\* holds "/" (every other path is found through "/"), or [specificPath]
PathLists ==
    { SortPaths(S) : S \in { T \in SUBSET PathSet :
                               Cardinality(T) <= MaxPaths /\ (T = {} \/ Root \in T) } }
      \cup { <<path>> : path \in PathSet }

\* pagePath.replace(/\//g, "-")
ReplaceSlashes(s) == [i \in 1..Len(s) |-> IF s[i] = "/" THEN "-" ELSE s[i]]

\* .replace(/^-/, "")
StripLeadingDash(s) == IF s # <<>> /\ Head(s) = "-" THEN Tail(s) ELSE s

\* `${viewportName}-${safePath}.png`
getScreenshotFilename(pagePath, viewportName) ==
    viewportName \o <<"-">>
      \o (IF pagePath = Root
          THEN <<"h", "o", "m", "e", "p", "a", "g", "e">>
          ELSE StripLeadingDash(ReplaceSlashes(pagePath)))
      \o <<".", "p", "n", "g">>

\* viewports.map((v) => v.name)
ViewportNames(vps) == [k \in 1..Len(vps) |-> vps[k].name]

\* mutant: the error total of the metadata is not taken from the error list
Manifest_NoErrorTotal(pathList, vps, screenshotCount, errs) ==
    [ paths     |-> pathList,
      viewports |-> vps,
      errors    |-> errs,
      metadata  |-> [ totalPaths       |-> Len(pathList),
                      totalScreenshots |-> screenshotCount,
                      totalErrors      |-> 0,
                      viewports        |-> ViewportNames(vps) ] ]

\* the ManifestData object that ManifestWriter.write serializes (version,
\* generatedAt, baseUrl and crawlerConfig are copied from the configuration)
Manifest(pathList, vps, screenshotCount, errs) ==
    [ paths     |-> pathList,
      viewports |-> vps,
      errors    |-> errs,
      metadata  |-> [ totalPaths       |-> Len(pathList),
                      totalScreenshots |-> screenshotCount,
                      totalErrors      |-> Len(errs),
                      viewports        |-> ViewportNames(vps) ] ]

-----------------------------------------------------------------------------
(* ScreenshotGenerator: tryPageLoad and generateScreenshots *)

strategyList == <<"normal", "extra_timeout", "brutal">>

\* mutant: brutal propagates the exception of its navigation
strategies_NoForceProceed(strategy) ==
    CASE strategy = "normal" ->
           [waitUntil |-> "networkidle", externalTimeout |-> FALSE,
            blockExternal |-> FALSE, forceProceed |-> FALSE]
      [] strategy = "extra_timeout" ->
           [waitUntil |-> "networkidle", externalTimeout |-> TRUE,
            blockExternal |-> FALSE, forceProceed |-> FALSE]
      [] strategy = "brutal" ->
           [waitUntil |-> "commit", externalTimeout |-> FALSE,
            blockExternal |-> TRUE, forceProceed |-> FALSE]

\* const strategies: Record<LoadStrategy, StrategyConfig>, the fields that
\* decide the control flow of tryPageLoad
strategies(strategy) ==
    CASE strategy = "normal" ->
           [waitUntil |-> "networkidle", externalTimeout |-> FALSE,
            blockExternal |-> FALSE, forceProceed |-> FALSE]
      [] strategy = "extra_timeout" ->
           [waitUntil |-> "networkidle", externalTimeout |-> TRUE,
            blockExternal |-> FALSE, forceProceed |-> FALSE]
      [] strategy = "brutal" ->
           [waitUntil |-> "commit", externalTimeout |-> FALSE,
            blockExternal |-> TRUE, forceProceed |-> TRUE]

\* page = await context.newPage(): a page with no route handler, created in
\* the attempt of strategy for the pair in progress
NewPageRecord(strategy) ==
    [ open      |-> TRUE,
      strategy  |-> strategy,
      viewport  |-> viewports[vIndex].name,
      path      |-> paths[pIndex],
      handlers  |-> {},
      navigated |-> {},
      bare      |-> FALSE ]

\* if (page) await page.close()
ClosePage(pgs, id) == IF id = 0 THEN pgs ELSE [pgs EXCEPT ![id].open = FALSE]

\* mutant: the page of the previous attempt stays open
PagesBeforeAttempt_NoClose(pgs, id) == pgs

\* line 751: if (page) await page.close(), before context.newPage()
PagesBeforeAttempt(pgs, id) == ClosePage(pgs, id)

\* mutant: the page of a pair that never loaded stays open
PagesAfterGiveUp_NoClose(pgs, id) == pgs

\* line 777: if (page) await page.close(), before continue
PagesAfterGiveUp(pgs, id) == ClosePage(pgs, id)

\* mutant: every strategy that throws is reported
IsLastStrategy_Always(s) == TRUE

\* strategy === strategyList[strategyList.length - 1]
IsLastStrategy(s) == s = Len(strategyList)

\* mutant: the screenshot is attempted whether or not the page loaded
AfterStrategyLoop_NoSkip(ld) == "capture"

\* mutant: a pair that never loaded ends the run
AfterStrategyLoop_Abort(ld) == IF ld THEN "capture" ELSE "aborted"

\* if (!loaded) { ...; continue; } after the strategy loop
AfterStrategyLoop(ld) == IF ld THEN "capture" ELSE "notLoaded"

\* mutant: the path loop steps over the next path
NextPathIndex_SkipOne(i) == i + 2

\* i++ of for (let i = 0; i < paths.length; i++)
NextPathIndex(i) == i + 1

\* the GenerationError of the pair in progress (message is free text)
GenerationError(stage) ==
    [path |-> paths[pIndex], viewport |-> viewports[vIndex].name, stage |-> stage]

\* what the trail records: the strategy attempted or "screenshot", and how it ended
TrailEntry(event, outcome) ==
    [ path |-> paths[pIndex], viewport |-> viewports[vIndex].name,
      event |-> event, outcome |-> outcome ]

\* mutant: a screenshot exception is swallowed without a record
ErrorsAfterScreenshotThrow_Dropped(errs, e) == errs

\* errors.push({ ..., stage: "screenshot", ... }) in the catch of the screenshot
ErrorsAfterScreenshotThrow(errs, e) == Append(errs, e)

\* the catch block of one strategy attempt and the step of the for loop
Caught(outcome) ==
    /\ trail' = Append(trail, TrailEntry(strategyList[sIndex], outcome))
    /\ errors' = IF IsLastStrategy(sIndex)
                 THEN Append(errors, GenerationError("load"))
                 ELSE errors
    /\ IF sIndex < Len(strategyList)
       THEN sIndex' = sIndex + 1 /\ gPc' = "close"
       ELSE sIndex' = sIndex /\ gPc' = AfterStrategyLoop(loaded)
    /\ UNCHANGED <<loaded, results, vIndex, pIndex>>

\* tryPageLoad returned: loaded = true; break
Loaded(outcome) ==
    /\ trail' = Append(trail, TrailEntry(strategyList[sIndex], outcome))
    /\ loaded' = TRUE
    /\ gPc' = AfterStrategyLoop(TRUE)
    /\ UNCHANGED <<errors, sIndex, results, vIndex, pIndex>>

otherVars == <<normVars, cfgVars, govVars, crawlVars, crawlPage>>

\* const results = []; const errors = []; for (const viewport of this.viewports)
GenStart ==
    /\ gPc = "start"
    /\ results' = <<>>
    /\ errors' = <<>>
    /\ vIndex' = 1
    /\ gPc' = "context"
    /\ UNCHANGED <<pIndex, sIndex, capPage, pages, loaded, trail,
                   viewports, paths, files, manifests, bPc, otherVars>>

\* const context = await browser.newContext(...); for (let i = 0; ...)
NewContext ==
    /\ gPc = "context"
    /\ vIndex <= Len(viewports)
    /\ pIndex' = 1
    /\ gPc' = "pair"
    /\ UNCHANGED <<results, errors, vIndex, sIndex, capPage, pages, loaded, trail,
                   viewports, paths, files, manifests, bPc, otherVars>>

\* the head of the path loop body: let loaded = false; let page = null.
\* Pages that are closed are dropped from the record here; an open one stays.
BeginPair ==
    /\ gPc = "pair"
    /\ pIndex <= Len(paths)
    /\ loaded' = FALSE
    /\ capPage' = 0
    /\ sIndex' = 1
    /\ trail' = <<>>
    /\ pages' = SelectSeq(pages, LAMBDA pg : pg.open)
    /\ gPc' = "close"
    /\ UNCHANGED <<results, errors, vIndex, pIndex,
                   viewports, paths, files, manifests, bPc, otherVars>>

\* try { if (page) await page.close();
ClosePrevious ==
    /\ gPc = "close"
    /\ pages' = PagesBeforeAttempt(pages, capPage)
    /\ gPc' = "newPage"
    /\ UNCHANGED <<results, errors, vIndex, pIndex, sIndex, capPage, loaded, trail,
                   viewports, paths, files, manifests, bPc, otherVars>>

\* page = await context.newPage(), which resolves or rejects
NewPage(ok) ==
    /\ gPc = "newPage"
    /\ IF ok
       THEN /\ pages' = Append(pages, NewPageRecord(strategyList[sIndex]))
            /\ capPage' = Len(pages) + 1
            /\ gPc' = "load"
            /\ UNCHANGED <<results, errors, vIndex, pIndex, sIndex, loaded, trail>>
       ELSE /\ Caught("newPageThrew")
            /\ UNCHANGED <<pages, capPage>>
    /\ UNCHANGED <<viewports, paths, files, manifests, bPc, otherVars>>

\* await this.tryPageLoad(page, fullUrl, strategy):
\*   ok         - page.goto resolves
\*   gotoThrew  - page.goto rejects
\*   routeThrew - await page.route rejects (blockExternal only)
TryPageLoad(outcome) ==
    /\ gPc = "load"
    /\ LET strategy == strategyList[sIndex]
           cfg      == strategies(strategy)
           routed   == IF cfg.externalTimeout \/ (cfg.blockExternal /\ outcome # "routeThrew")
                       THEN [pages EXCEPT ![capPage].handlers = @ \cup {strategy}]
                       ELSE pages
           gone     == [routed EXCEPT ![capPage].navigated = @ \cup {strategy},
                                      ![capPage].bare = (routed[capPage].handlers = {})]
       IN  CASE outcome = "routeThrew" ->
                  /\ cfg.blockExternal
                  /\ pages' = routed
                  /\ Caught("routeThrew")
             [] outcome = "gotoThrew" ->
                  /\ pages' = gone
                  /\ IF cfg.forceProceed THEN Loaded("proceeded") ELSE Caught("gotoThrew")
             [] outcome = "ok" ->
                  /\ pages' = gone
                  /\ Loaded("ok")
    /\ UNCHANGED <<capPage, viewports, paths, files, manifests, bPc, otherVars>>

\* try { hideElements; page?.screenshot; results.push } catch { errors.push }
\* (hideElements swallows its own exceptions; page?.screenshot on null does nothing)
Capture(outcome) ==
    /\ gPc = "capture"
    /\ outcome = "threw" => capPage # 0
    /\ LET filename == getScreenshotFilename(paths[pIndex], viewports[vIndex].name)
       IN  IF outcome = "ok"
           THEN /\ files' = IF capPage # 0 THEN files \cup {filename} ELSE files
                /\ results' = Append(results, [path |-> paths[pIndex],
                                               viewport |-> viewports[vIndex].name,
                                               filename |-> filename])
                /\ errors' = errors
           ELSE /\ errors' = ErrorsAfterScreenshotThrow(errors, GenerationError("screenshot"))
                /\ UNCHANGED <<files, results>>
    /\ trail' = Append(trail, TrailEntry("screenshot", outcome))
    /\ gPc' = "finally"
    /\ UNCHANGED <<vIndex, pIndex, sIndex, capPage, pages, loaded,
                   viewports, paths, manifests, bPc, otherVars>>

\* finally { if (page) await page.close(); } and the step of the path loop
Finally ==
    /\ gPc = "finally"
    /\ pages' = ClosePage(pages, capPage)
    /\ pIndex' = NextPathIndex(pIndex)
    /\ gPc' = "pair"
    /\ UNCHANGED <<results, errors, vIndex, sIndex, capPage, loaded, trail,
                   viewports, paths, files, manifests, bPc, otherVars>>

\* if (!loaded) { if (page) await page.close(); continue; }
GiveUp ==
    /\ gPc = "notLoaded"
    /\ pages' = PagesAfterGiveUp(pages, capPage)
    /\ pIndex' = NextPathIndex(pIndex)
    /\ gPc' = "pair"
    /\ UNCHANGED <<results, errors, vIndex, sIndex, capPage, loaded, trail,
                   viewports, paths, files, manifests, bPc, otherVars>>

\* await context.close() after the last path, which closes the pages of the
\* context, and the step of the viewport loop
CloseContext ==
    /\ gPc = "pair"
    /\ pIndex > Len(paths)
    /\ pages' = [k \in 1..Len(pages) |-> [pages[k] EXCEPT !.open = FALSE]]
    /\ vIndex' = vIndex + 1
    /\ gPc' = "context"
    /\ UNCHANGED <<results, errors, pIndex, sIndex, capPage, loaded, trail,
                   viewports, paths, files, manifests, bPc, otherVars>>

\* return { results, errors }
GenReturn ==
    /\ gPc = "context"
    /\ vIndex > Len(viewports)
    /\ gPc' = "returned"
    /\ UNCHANGED <<results, errors, vIndex, pIndex, sIndex, capPage, pages, loaded, trail,
                   viewports, paths, files, manifests, bPc, otherVars>>

\* manifestWriter.write(baseUrl, config, viewports, discoveredPaths, screenshots, errors)
\* of the revision that captures with ScreenshotGenerator
WriteManifest ==
    /\ gPc = "returned"
    /\ manifests' = Append(manifests, Manifest(paths, viewports, Len(results), errors))
    /\ gPc' = "done"
    /\ UNCHANGED <<results, errors, vIndex, pIndex, sIndex, capPage, pages, loaded, trail,
                   viewports, paths, files, bPc, otherVars>>

\* the state when generateScreenshots is called: discovery has produced the
\* path list, the snapshot directory is empty, no manifest is written yet
InitCapture ==
    /\ viewports \in ViewportLists
    /\ paths \in PathLists
    /\ files = {}
    /\ manifests = <<>>
    /\ errors = <<>>
    /\ bPc = "idle"
    /\ results = <<>>
    /\ vIndex = 0
    /\ pIndex = 0
    /\ sIndex = 0
    /\ capPage = 0
    /\ pages = <<>>
    /\ loaded = FALSE
    /\ trail = <<>>
    /\ gPc = "start"
    /\ ignoreQueryParams = TRUE
    /\ blacklistPatterns = <<>>
    /\ IdleNorm
    /\ IdleGov
    /\ IdleCrawl

NextCapture ==
    \/ GenStart
    \/ NewContext
    \/ BeginPair
    \/ ClosePrevious
    \/ \E ok \in BOOLEAN : NewPage(ok)
    \/ \E outcome \in {"ok", "gotoThrew", "routeThrew"} : TryPageLoad(outcome)
    \/ \E outcome \in {"ok", "threw"} : Capture(outcome)
    \/ Finally
    \/ GiveUp
    \/ CloseContext
    \/ GenReturn
    \/ WriteManifest

SpecCapture == InitCapture /\ [][NextCapture]_vars

\* The capture flow is a single chain of awaits, each of which resolves or
\* rejects: it takes its next step whenever it has one.
SpecCaptureLive == SpecCapture /\ WF_vars(NextCapture)

-----------------------------------------------------------------------------
(* Properties of the load strategies and of capture *)

\* the strategy attempts recorded for the pair in progress, in order
Attempts == SelectSeq(trail, LAMBDA e : e.event # "screenshot")

\* the attempt ended in the catch block of the strategy loop
Threw(e) == e.outcome \in {"newPageThrew", "routeThrew", "gotoThrew"}

\* the screenshot call was reached for the pair in progress
ScreenshotAttempted == \E k \in 1..Len(trail) : trail[k].event = "screenshot"

\* the entries of a list of errors or results for the pair of trail entry e
ForPairOf(list, e) ==
    SelectSeq(list, LAMBDA x : x.path = e.path /\ x.viewport = e.viewport)

\* a strategy attempt of the pair is in progress
AttemptInProgress == gPc \in {"close", "newPage", "load"}

\* every strategy of the pair in progress was attempted and threw
AllStrategiesFailed ==
    /\ Len(Attempts) = Len(strategyList)
    /\ \A k \in 1..Len(Attempts) : Threw(Attempts[k])

\* C13: for each (path, viewport) the strategies are attempted in the order
\* normal, extra_timeout, brutal; a later one is attempted only after every
\* earlier one threw, none is attempted after one succeeded, and a failure of
\* normal or extra_timeout never produces a GenerationError.
C13_StrategiesInOrder ==
    /\ Len(Attempts) <= Len(strategyList)
    /\ \A k \in 1..Len(Attempts) : Attempts[k].event = strategyList[k]
    /\ \A k \in 1..(Len(Attempts) - 1) : Threw(Attempts[k])
    /\ AttemptInProgress =>
          /\ sIndex = Len(Attempts) + 1
          /\ \A k \in 1..Len(Attempts) : Threw(Attempts[k])
    /\ \A k \in 1..Len(Attempts) :
          (\E i \in 1..Len(errors) :
               /\ errors[i].path = Attempts[k].path
               /\ errors[i].viewport = Attempts[k].viewport
               /\ errors[i].stage = "load")
            => AllStrategiesFailed

C13_Witness ==
    /\ Len(Attempts) = 3
    /\ Attempts[1].outcome = "gotoThrew"
    /\ Attempts[2].outcome = "gotoThrew"
    /\ Attempts[3].outcome = "ok"
    /\ ForPairOf(errors, Attempts[1]) = <<>>
    /\ errors # <<>>

\* C14: when normal and extra_timeout both throw, brutal is still attempted,
\* and when the navigation of brutal throws, tryPageLoad returns normally: the
\* pair counts as loaded, no load error is recorded, and the screenshot is
\* still taken of the page.
C14_BrutalForcesProceed ==
    /\ (Len(Attempts) = 2 /\ Threw(Attempts[1]) /\ Threw(Attempts[2]))
          => AttemptInProgress /\ strategyList[sIndex] = "brutal"
    /\ (Len(Attempts) = 3 /\ capPage # 0 /\ "brutal" \in pages[capPage].navigated)
          => /\ loaded
             /\ \A i \in 1..Len(errors) :
                   (errors[i].path = Attempts[3].path /\ errors[i].viewport = Attempts[3].viewport)
                     => errors[i].stage # "load"
             /\ gPc = "capture" \/ ScreenshotAttempted

C14_Witness ==
    /\ Len(Attempts) = 3
    /\ Attempts[1].outcome = "gotoThrew"
    /\ Attempts[2].outcome = "gotoThrew"
    /\ Attempts[3].outcome = "proceeded"
    /\ ScreenshotAttempted
    /\ ForPairOf(results, Attempts[3]) # <<>>

\* C15: for a (path, viewport) whose every load strategy fails, exactly one
\* GenerationError with stage "load" is recorded for that pair, no screenshot
\* is attempted, the pair gets no screenshot artifact, and the run proceeds to
\* the next path.
C15_TotalFailureOneLoadError ==
    /\ [](AllStrategiesFailed =>
            /\ ForPairOf(errors, Attempts[1]) =
                   << [path |-> Attempts[1].path, viewport |-> Attempts[1].viewport,
                       stage |-> "load"] >>
            /\ ~ScreenshotAttempted
            /\ ForPairOf(results, Attempts[1]) = <<>>
            /\ ~loaded
            /\ gPc \in {"notLoaded", "pair", "context", "returned", "done"})
    /\ [][ gPc = "notLoaded" =>
             /\ gPc' = "pair"
             /\ pIndex' = pIndex + 1
             /\ errors' = errors
             /\ results' = results
             /\ files' = files ]_vars

C15_Witness ==
    /\ AllStrategiesFailed
    /\ Attempts[1].outcome = "gotoThrew"
    /\ Attempts[3].outcome = "routeThrew"
    /\ Attempts[1].path = paths[1]
    /\ gPc = "pair"
    /\ pIndex = 2
    /\ Len(paths) = 2

\* C16: every strategy attempt runs on a page created for that attempt: the
\* page of the previous attempt is closed before the new one is created, and
\* a route handler installed for one strategy is never on the page that
\* another strategy navigates.
C16_FreshPagePerAttempt ==
    /\ [](/\ Cardinality({ k \in 1..Len(pages) : pages[k].open }) <= 1
          /\ \A k \in 1..Len(pages) :
                /\ pages[k].navigated \subseteq {pages[k].strategy}
                /\ pages[k].handlers \subseteq {pages[k].strategy}
          /\ (gPc = "load" => /\ capPage = Len(pages)
                              /\ pages[capPage].open
                              /\ pages[capPage].strategy = strategyList[sIndex]
                              /\ pages[capPage].navigated = {}
                              /\ pages[capPage].handlers = {}))
    /\ [][ Len(pages') > Len(pages) =>
             \A k \in 1..Len(pages) : ~pages[k].open ]_vars

C16_Witness ==
    /\ Len(pages) = 3
    /\ pages[2].strategy = "extra_timeout"
    /\ pages[2].handlers = {"extra_timeout"}
    /\ pages[2].navigated = {"extra_timeout"}
    /\ ~pages[2].open
    /\ pages[3].strategy = "brutal"
    /\ pages[3].handlers = {"brutal"}
    /\ pages[3].navigated = {"brutal"}
    /\ pages[3].open

\* C17: on every exit of the processing of a pair (screenshot taken,
\* screenshot failed, all strategies failed) every page opened for the pair
\* is closed before the next pair is started.
C17_PagesClosedBetweenPairs ==
    gPc \in {"pair", "context", "returned", "done"} =>
        \A k \in 1..Len(pages) : ~pages[k].open

C17_Witness ==
    /\ gPc = "pair"
    /\ pIndex <= Len(paths)
    /\ results # <<>>
    /\ \E i \in 1..Len(errors) : errors[i].stage = "load"
    /\ \E i \in 1..Len(errors) : errors[i].stage = "screenshot"
    /\ Len(pages) = 3
    /\ AllStrategiesFailed

\* every pair of the run has an outcome: a result or an error
AllPairsProcessed ==
    \A v \in 1..Len(viewports), i \in 1..Len(paths) :
        \/ \E r \in 1..Len(results) :
              results[r].path = paths[i] /\ results[r].viewport = viewports[v].name
        \/ \E r \in 1..Len(errors) :
              errors[r].path = paths[i] /\ errors[r].viewport = viewports[v].name

\* C18: a screenshot exception on a loaded page records one GenerationError
\* with stage "screenshot" for the pair, yields no artifact for it, and does
\* not stop the run: the remaining paths and viewports are still processed.
C18_ScreenshotFailureRecorded ==
    /\ [](\A k \in 1..Len(trail) :
            (trail[k].event = "screenshot" /\ trail[k].outcome = "threw") =>
                /\ ForPairOf(errors, trail[k]) =
                       << [path |-> trail[k].path, viewport |-> trail[k].viewport,
                           stage |-> "screenshot"] >>
                /\ ForPairOf(results, trail[k]) = <<>>)
    /\ (\E k \in 1..Len(trail) : trail[k].event = "screenshot" /\ trail[k].outcome = "threw")
          ~> (gPc = "done" /\ AllPairsProcessed /\ Len(manifests) = 1)

C18_Witness ==
    /\ gPc = "done"
    /\ Len(paths) = 2
    /\ Len(viewports) = 2
    /\ errors # <<>>
    /\ errors[1] = [path |-> paths[1], viewport |-> viewports[1].name, stage |-> "screenshot"]
    /\ Len(results) = 3

-----------------------------------------------------------------------------
(* generateBaseline: discovery, first manifest, generation by the test     *)
(* runner, scan of the snapshot directory, final manifest                  *)

\* mutant: the scan pairs every viewport with the first path only
ExpectedPairs_FirstPathOnly(vps, pths) ==
    [ k \in 1..(Len(vps) * Len(pths)) |->
        [ viewport |-> vps[((k - 1) \div Len(pths)) + 1],
          path     |-> pths[1] ] ]

\* for (const viewport of viewports) for (const pagePath of discoveredPaths):
\* the pairs in the order of the two loops
ExpectedPairs(vps, pths) ==
    [ k \in 1..(Len(vps) * Len(pths)) |->
        [ viewport |-> vps[((k - 1) \div Len(pths)) + 1],
          path     |-> pths[((k - 1) % Len(pths)) + 1] ] ]

\* generatedFiles.includes(expectedFile)
BaselinePresent(pr, fs) == getScreenshotFilename(pr.path, pr.viewport.name) \in fs

\* errors.push({ path: pagePath, viewport: viewport.name, stage: "screenshot", ... })
MissingError(pr) ==
    [path |-> pr.path, viewport |-> pr.viewport.name, stage |-> "screenshot"]

\* the errors array after the scan
ScanErrors(vps, pths, fs) ==
    Bind(SelectSeq(ExpectedPairs(vps, pths), LAMBDA pr : ~BaselinePresent(pr, fs)),
         LAMBDA missing : [k \in 1..Len(missing) |-> MissingError(missing[k])])

\* mutant: the scan counts every pair as generated
ScreenshotCount_EveryPair(vps, pths, fs) == Len(ExpectedPairs(vps, pths))

\* screenshotCount after the scan
ScreenshotCount(vps, pths, fs) ==
    Len(SelectSeq(ExpectedPairs(vps, pths), LAMBDA pr : BaselinePresent(pr, fs)))

\* the tests of generation.spec.ts: one per viewport and path of the manifest
\* on disk; a test that passes writes its baseline file
GenerationTests == ExpectedPairs(viewports, manifests[Len(manifests)].paths)

\* try { page.goto(baseUrl); if (!response?.ok()) throw } catch { process.exit(1) }
CheckReachable(ok) ==
    /\ bPc = "start"
    /\ crawlPage' = Navigated(crawlPage)
    /\ bPc' = IF ok THEN "discover" ELSE "exited"
    /\ UNCHANGED <<viewports, paths, files, manifests, errors, genVars,
                   normVars, cfgVars, govVars, crawlVars>>

\* discoveredPaths = [specificPath] or await crawler.crawl(page); browser.close()
Discover(pathList) ==
    /\ bPc = "discover"
    /\ paths' = pathList
    /\ bPc' = "write"
    /\ UNCHANGED <<viewports, files, manifests, errors, genVars, otherVars>>

\* manifestWriter.write(baseUrl, config, viewports, discoveredPaths, 0, [])
WriteInitialManifest ==
    /\ bPc = "write"
    /\ manifests' = Append(manifests, Manifest(paths, viewports, 0, <<>>))
    /\ bPc' = "generate"
    /\ UNCHANGED <<viewports, paths, files, errors, genVars, otherVars>>

\* await runPlaywrightGeneration(baseUrl, specificPath): the tests at the
\* positions passed write their baselines, the others write nothing
RunPlaywrightGeneration(passed) ==
    /\ bPc = "generate"
    /\ passed \subseteq DOMAIN GenerationTests
    /\ files' = files \cup { getScreenshotFilename(GenerationTests[k].path,
                                                   GenerationTests[k].viewport.name) :
                               k \in passed }
    /\ bPc' = "scan"
    /\ UNCHANGED <<viewports, paths, manifests, errors, genVars, otherVars>>

\* the scan of snapshotsDir, the two loops that fill errors and
\* screenshotCount, and the second manifestWriter.write
ScanAndWriteManifest ==
    /\ bPc = "scan"
    /\ errors' = ScanErrors(viewports, paths, files)
    /\ manifests' = Append(manifests,
                           Manifest(paths, viewports,
                                    ScreenshotCount(viewports, paths, files),
                                    ScanErrors(viewports, paths, files)))
    /\ bPc' = "done"
    /\ UNCHANGED <<viewports, paths, files, genVars, otherVars>>

\* after loadCrawlConfig and the cleaning of the output directory
InitBaseline ==
    /\ viewports \in ViewportLists
    /\ paths = <<>>
    /\ files = {}
    /\ manifests = <<>>
    /\ errors = <<>>
    /\ bPc = "start"
    /\ IdleGen
    /\ ignoreQueryParams = TRUE
    /\ blacklistPatterns = <<>>
    /\ IdleNorm
    /\ IdleGov
    /\ IdleCrawl

NextBaseline ==
    \/ \E ok \in BOOLEAN : CheckReachable(ok)
    \/ \E pathList \in PathLists : Discover(pathList)
    \/ WriteInitialManifest
    \/ \E passed \in SUBSET (1..(Len(viewports) * Len(paths))) : RunPlaywrightGeneration(passed)
    \/ ScanAndWriteManifest

SpecBaseline == InitBaseline /\ [][NextBaseline]_vars

\* a run of either revision of the generator script
InitGenerate == InitCapture \/ InitBaseline

NextGenerate == NextCapture \/ NextBaseline

SpecGenerate == InitGenerate /\ [][NextGenerate]_vars

-----------------------------------------------------------------------------
(* Properties of the manifest *)

\* C19: a run of generateBaseline writes the manifest twice: the first write
\* comes after discovery and before capture starts and has errors = [] and
\* metadata.totalScreenshots = 0; the second comes after capture and has
\* metadata.totalErrors = errors.length and metadata.totalPaths = paths.length
\* for the same paths list.
C19_ManifestWrittenTwice ==
    /\ bPc \in {"start", "discover", "write", "exited"} => manifests = <<>> /\ files = {}
    /\ bPc \in {"generate", "scan"} => Len(manifests) = 1
    /\ bPc = "done" => Len(manifests) = 2
    /\ Len(manifests) >= 1 =>
          /\ manifests[1].paths = paths
          /\ manifests[1].errors = <<>>
          /\ manifests[1].metadata.totalScreenshots = 0
    /\ Len(manifests) >= 2 =>
          /\ manifests[2].paths = manifests[1].paths
          /\ manifests[2].metadata.totalErrors = Len(manifests[2].errors)
          /\ manifests[2].metadata.totalPaths = Len(manifests[2].paths)

C19_Witness ==
    /\ bPc = "done"
    /\ Len(manifests) = 2
    /\ Len(manifests[2].errors) = 2
    /\ manifests[2].metadata.totalScreenshots = 2

\* C20: in every manifest written, a (path, viewport) pair appears at most
\* once in errors, and every errors entry names a path of the manifest's
\* paths and a viewport of the manifest's viewports.
C20_ManifestErrorsWellFormed ==
    \A m \in 1..Len(manifests) :
        Bind(manifests[m], LAMBDA manifest :
            /\ \A i, j \in 1..Len(manifest.errors) :
                  (/\ manifest.errors[i].path = manifest.errors[j].path
                   /\ manifest.errors[i].viewport = manifest.errors[j].viewport) => i = j
            /\ \A i \in 1..Len(manifest.errors) :
                  /\ \E k \in 1..Len(manifest.paths) :
                        manifest.paths[k] = manifest.errors[i].path
                  /\ \E k \in 1..Len(manifest.viewports) :
                        manifest.viewports[k].name = manifest.errors[i].viewport)

C20_Witness ==
    /\ manifests # <<>>
    /\ Len(manifests[Len(manifests)].errors) >= 3
    /\ Len(manifests[Len(manifests)].paths) = 2

-----------------------------------------------------------------------------
(* Specification SpecBlacklist: one call of isBlacklisted on every path *)

\* the paths isBlacklisted is called with: the root, the path of the
\* patterns, sub-paths of it, paths that begin with the same characters
\* without being sub-paths, and paths that hold it further down
UrlPaths ==
    { Root, <<"/", "k">>, <<"/", "k", "/">>, <<"/", "k", "/", "x">>,
      <<"/", "k", "/", "x", "/", "y">>, <<"/", "k", "b">>,
      <<"/", "k", "b", "/", "x">>, <<"/", "x">>, <<"/", "x", "/", "k">>,
      <<"/", "x", "/", "k", "/", "y">> }

\* blacklistPatterns of these calls: those of normalizePath, and the exact
\* pattern next to its wildcard
BlacklistPatternLists ==
    PatternLists \cup { << <<"/", "k">>, <<"/", "k", "/", "*">> >> }

InitBlacklist ==
    /\ nLink \in UrlPaths
    /\ nResult = NULL
    /\ nPc = "start"
    /\ ignoreQueryParams = FALSE
    /\ blacklistPatterns \in BlacklistPatternLists
    /\ IdleGov
    /\ IdleCrawl
    /\ IdleRun
    /\ IdleGen

CallIsBlacklisted ==
    /\ nPc = "start"
    /\ nResult' = isBlacklisted(nLink, blacklistPatterns)
    /\ nPc' = "done"
    /\ UNCHANGED <<nLink, cfgVars, govVars, crawlVars, crawlPage, runVars, genVars>>

NextBlacklist == CallIsBlacklisted

SpecBlacklist == InitBlacklist /\ [][NextBlacklist]_vars

\* the pattern list holds the pattern
HasPattern(patterns, pattern) == \E k \in 1..Len(patterns) : patterns[k] = pattern

\* path lies below dir: it begins with dir, a slash, and at least one more character
IsSubPath(path, dir) == StartsWith(path, dir \o <<"/">>) /\ Len(path) > Len(dir) + 1

\* C24: a wildcard pattern "/k/*" rejects "/k/x" and every other sub-path of
\* "/k"; a list of exact patterns rejects exactly the paths equal to one of
\* them, so the exact pattern "/k" rejects "/k" and accepts "/k/x".
C24_WildcardAndExactPatterns ==
    nPc = "done" =>
        /\ ( /\ HasPattern(blacklistPatterns, <<"/", "k", "/", "*">>)
             /\ IsSubPath(nLink, <<"/", "k">>) ) => nResult = TRUE
        /\ (\A k \in 1..Len(blacklistPatterns) : ~EndsWith(blacklistPatterns[k], <<"/", "*">>))
              => (nResult = TRUE <=> HasPattern(blacklistPatterns, nLink))

C24_Witness ==
    /\ nPc = "done"
    /\ blacklistPatterns = << <<"/", "k", "/", "*">> >>
    /\ nLink = <<"/", "k", "/", "x", "/", "y">>
    /\ nResult = TRUE

-----------------------------------------------------------------------------
(* Further properties of normalizePath, under SpecNorm *)

\* C25: for a non-root path p without a trailing slash that normalizePath
\* returns, normalizePath(p + "/") = normalizePath(p) = p; the root stays "/";
\* and normalizePath applied to any of its results returns that result.
C25_TrailingSlashIdempotent ==
    (nPc = "done" /\ nResult # NULL) =>
        /\ normalizePath(nResult, baseUrl, ignoreQueryParams, blacklistPatterns) = nResult
        /\ (nResult # Root /\ ~EndsWith(nResult, <<"/">>)) =>
              normalizePath(nResult \o <<"/">>, baseUrl, ignoreQueryParams,
                            blacklistPatterns) = nResult
        /\ ParseURL(nLink, baseUrl).pathname = Root => nResult = Root

\* C27: a link with a query string that normalizePath accepts yields a path
\* without the query when ignoreQueryParams is true and a path that ends with
\* the query when it is false.
C27_QueryKeptUnlessIgnored ==
    (nPc = "done" /\ nResult # NULL) =>
        Bind(ParseURL(nLink, baseUrl), LAMBDA u :
            u.search # <<>> =>
                IF ignoreQueryParams
                THEN \A i \in 1..Len(nResult) : nResult[i] # "?"
                ELSE EndsWith(nResult, u.search))

-----------------------------------------------------------------------------
(* Further properties of the crawl, under SpecCrawl *)

\* no trailing slash unless the path is exactly "/"
Canonical(path) == path = Root \/ ~EndsWith(path, <<"/">>)

\* C26: every path in the queue, in visited, in discoveredPaths and in the
\* returned list has no trailing slash unless it is exactly "/".
C26_CrawlPathsCanonical ==
    /\ \A i \in 1..Len(queue) : Canonical(queue[i])
    /\ \A path \in visited \cup discoveredPaths : Canonical(path)
    /\ returned # NotReturned => \A i \in 1..Len(returned) : Canonical(returned[i])

\* the paths the crawl enqueues from the successfully loaded pages among S
LinkTargets(S) ==
    UNION { { normalizePath(site[path].links[k], baseUrl, ignoreQueryParams,
                            blacklistPatterns) : k \in 1..Len(site[path].links) } :
              path \in { q \in S \cap DOMAIN site : site[q].kind = "ok" } } \ {NULL}

\* the least number of links from "/" to path, S being the paths within d
\* links; -1 when no chain of links leads to path
RECURSIVE LinkDistance(_, _, _)
LinkDistance(path, S0, d) ==
    Bind(S0, LAMBDA S :
        IF path \in S THEN d
        ELSE Bind(S \cup LinkTargets(S), LAMBDA next :
                 IF next = S THEN -1 ELSE LinkDistance(path, next, d + 1)))

\* C28: the crawl is breadth-first: of two navigated paths, the one at the
\* smaller link distance from "/" (over the links of successfully loaded
\* pages) is navigated first.
C28_BreadthFirstOrder ==
    cPc = "done" =>
        Bind([i \in 1..Len(navigations) |-> LinkDistance(navigations[i], {Root}, 0)],
             LAMBDA distance :
                \A i, j \in 1..Len(navigations) :
                    /\ distance[i] >= 0
                    /\ distance[i] < distance[j] => i < j)

C28_Witness ==
    /\ cPc = "done"
    /\ Len(navigations) = 4
    /\ LinkDistance(navigations[2], {Root}, 0) = 1
    /\ LinkDistance(navigations[3], {Root}, 0) = 1
    /\ LinkDistance(navigations[4], {Root}, 0) = 2

-----------------------------------------------------------------------------
(* Specification SpecBlock: the route handler of the brutal strategy *)

\* the branch the handler installed for blockExternal takes for a URL
BlockRule(url, base) ==
    IF StartsWith(url, base) \/ StartsWith(url, DataPrefix) THEN "sameOrigin" ELSE "blocked"

\* route.continue(), or route.abort("blockedbyrule"); no timer, no counter
BlockedRoute(url, rule) ==
    [url         |-> url,
     rule        |-> rule,
     continued   |-> rule = "sameOrigin",
     abortReason |-> IF rule = "blocked" THEN "blockedbyrule" ELSE "none",
     timer       |-> "none",
     promise     |-> "none"]

\* page.route("**/*", (route) => { ... }) of tryPageLoad for one intercepted request
BlockHandler(url) ==
    /\ Len(routes) < MaxRoutes
    /\ routes' = Append(routes, BlockedRoute(url, BlockRule(url, baseUrl)))
    /\ UNCHANGED <<whitelistedDomains, blacklistedDomains, requestAttempts,
                   normVars, cfgVars, crawlVars, crawlPage, runVars, genVars>>

\* the domain lists of the configuration are those of the governor; the
\* handler of the brutal strategy does not read them
InitBlock ==
    /\ \E c \in GovConfigs : /\ whitelistedDomains = c.whitelistedDomains
                             /\ blacklistedDomains = c.blacklistedDomains
    /\ requestAttempts = EmptyMap
    /\ routes = <<>>
    /\ IdleNorm
    /\ ignoreQueryParams = TRUE
    /\ blacklistPatterns = <<>>
    /\ IdleCrawl
    /\ IdleRun
    /\ IdleGen

NextBlock == \E url \in RequestUrls : BlockHandler(url)

SpecBlock == InitBlock /\ [][NextBlock]_vars

\* C29: under the brutal strategy every request that is neither same-origin
\* nor a data: URL is aborted as blocked and never continued, requests to
\* whitelisted domains included; same-origin and data: requests are continued
\* and never aborted.
C29_BrutalBlocksForeignRequests ==
    \A i \in 1..Len(routes) :
        IF SameOriginUrl(routes[i].url) \/ StartsWith(routes[i].url, DataPrefix)
        THEN routes[i].continued /\ routes[i].abortReason = "none"
        ELSE ~routes[i].continued /\ routes[i].abortReason = "blockedbyrule"

-----------------------------------------------------------------------------
(* Further properties of generateScreenshots, under SpecCapture *)

\* the names of the viewports paired with the paths, in the order of the loops
PairOrder ==
    [ k \in 1..(Len(viewports) * Len(paths)) |->
        [ viewport |-> viewports[((k - 1) \div Len(paths)) + 1].name,
          path     |-> paths[((k - 1) % Len(paths)) + 1] ] ]

\* the positions in PairOrder of the entries of a list of results or errors
PairPositions(list) ==
    [ r \in 1..Len(list) |->
        CHOOSE k \in 1..Len(PairOrder) :
            /\ PairOrder[k].path = list[r].path
            /\ PairOrder[k].viewport = list[r].viewport ]

\* the number of pairs whose processing has ended
PairsEnded ==
    IF gPc = "start" THEN 0
    ELSE IF gPc \in {"context", "returned", "done"} THEN (vIndex - 1) * Len(paths)
    ELSE (vIndex - 1) * Len(paths) + pIndex - 1

\* C30: capture is sequential: at most one page is open at any time; a
\* navigation is issued only on the page of the attempt in progress while
\* every other page is closed; an open page belongs to the viewport and the
\* path in progress; and the pairs get their outcomes one after another in
\* the order of the viewport loop and, within a viewport, of the path list.
C30_CaptureSequential ==
    /\ [](/\ Cardinality({ k \in 1..Len(pages) : pages[k].open }) <= 1
          /\ \A k \in 1..Len(pages) :
                pages[k].open => /\ k = capPage
                                 /\ vIndex \in 1..Len(viewports)
                                 /\ pIndex \in 1..Len(paths)
                                 /\ pages[k].viewport = viewports[vIndex].name
                                 /\ pages[k].path = paths[pIndex]
          /\ Bind(PairPositions(results), LAMBDA done :
             Bind(PairPositions(errors), LAMBDA failed :
                /\ \A a, b \in 1..Len(done) : a < b => done[a] < done[b]
                /\ \A a, b \in 1..Len(failed) : a < b => failed[a] < failed[b]
                /\ \A k \in 1..PairsEnded :
                      \/ \E a \in 1..Len(done) : done[a] = k
                      \/ \E a \in 1..Len(failed) : failed[a] = k
                /\ \A a \in 1..Len(done) : done[a] <= PairsEnded + 1
                /\ \A a \in 1..Len(failed) : failed[a] <= PairsEnded + 1)))
    /\ [][ /\ \A k \in 1..Len(pages) :
                (k <= Len(pages') /\ pages'[k].navigated # pages[k].navigated)
                   => /\ gPc = "load"
                      /\ k = capPage
                      /\ \A j \in 1..Len(pages) : j # k => ~pages[j].open
           /\ vIndex' # vIndex => (vIndex' = vIndex + 1 /\ \A k \in 1..Len(pages') : ~pages'[k].open)
           /\ (pIndex' # pIndex /\ vIndex' = vIndex /\ pIndex' # 1) => pIndex' = pIndex + 1 ]_vars

C30_Witness ==
    /\ gPc = "load"
    /\ vIndex = 2
    /\ pIndex = 2
    /\ sIndex = 2
    /\ Len(results) + Len(errors) = 3
    /\ results # <<>>
    /\ errors # <<>>
    /\ pages[capPage].open
    /\ Len(pages) = 2

-----------------------------------------------------------------------------
(* Specification SpecCompare: the tests of regression.spec.ts *)

\* undefined, as returned by Array.prototype.find without a match
Undefined == [path |-> <<>>, viewport |-> <<>>, stage |-> "undefined"]

\* mutant: the viewport of the error is not compared
hasGenerationError_AnyViewport(manifest, pagePath, viewportName) ==
    IF "errors" \notin DOMAIN manifest THEN Undefined
    ELSE Bind({ i \in 1..Len(manifest.errors) : manifest.errors[i].path = pagePath },
              LAMBDA hits :
                 IF hits = {} THEN Undefined
                 ELSE manifest.errors[CHOOSE i \in hits : \A j \in hits : i <= j])

\* manifest.errors?.find((e) => e.path === pagePath && e.viewport === viewportName)
hasGenerationError(manifest, pagePath, viewportName) ==
    IF "errors" \notin DOMAIN manifest THEN Undefined
    ELSE Bind({ i \in 1..Len(manifest.errors) :
                  /\ manifest.errors[i].path = pagePath
                  /\ manifest.errors[i].viewport = viewportName },
              LAMBDA hits :
                 IF hits = {} THEN Undefined
                 ELSE manifest.errors[CHOOSE i \in hits : \A j \in hits : i <= j])

\* for (const viewport of viewports) for (const pagePath of manifest.paths):
\* the tests of the file in the order of their declaration
RegressionTests(manifest, vps) == ExpectedPairs(vps, manifest.paths)

\* the errors lists a generator run leaves for a path list and viewports: an
\* error for any of the pairs, in the order of the pairs
ErrorLists(vps, pths) ==
    { SelectSeq([ k \in 1..(Len(vps) * Len(pths)) |->
                    [ path     |-> ExpectedPairs(vps, pths)[k].path,
                      viewport |-> ExpectedPairs(vps, pths)[k].viewport.name,
                      stage    |-> IF k \notin F THEN "none"
                                   ELSE IF k % 2 = 1 THEN "load" ELSE "screenshot" ] ],
                LAMBDA e : e.stage # "none") :
        F \in SUBSET (1..(Len(vps) * Len(pths))) }

\* the manifests loadManifest returns: those a generator run writes last, and
\* those of the revision that wrote no errors list
ManifestsOnDisk(vps) ==
    UNION { { Manifest(pths, vps, Len(vps) * Len(pths) - Len(errs), errs) :
                errs \in ErrorLists(vps, pths) } \cup
            { [ paths |-> pths, viewports |-> vps,
                metadata |-> [ totalPaths |-> Len(pths),
                               totalScreenshots |-> Len(vps) * Len(pths) ] ] } :
            pths \in PathLists }

\* loadCrawlConfig and loadManifest at the top of the file: results holds
\* the state of each test, "pending" before it runs
InitCompare ==
    /\ viewports \in ViewportLists
    /\ manifests \in { <<m>> : m \in ManifestsOnDisk(viewports) }
    /\ results = [k \in 1..Len(RegressionTests(manifests[1], viewports)) |-> "pending"]
    /\ paths = <<>>
    /\ files = {}
    /\ errors = <<>>
    /\ bPc = "idle"
    /\ vIndex = 0
    /\ pIndex = 0
    /\ sIndex = 0
    /\ capPage = 0
    /\ pages = <<>>
    /\ loaded = FALSE
    /\ trail = <<>>
    /\ gPc = "compare"
    /\ ignoreQueryParams = TRUE
    /\ blacklistPatterns = <<>>
    /\ IdleNorm
    /\ IdleGov
    /\ IdleCrawl

\* the head of a test body: if (genError) { test.skip(...); return; }, else
\* the viewport adjustment, the governor and page.goto(pagePath)
TestBegin(k) ==
    /\ gPc = "compare"
    /\ k \in DOMAIN results
    /\ results[k] = "pending"
    /\ LET t        == RegressionTests(manifests[1], viewports)[k]
           genError == hasGenerationError(manifests[1], t.path, t.viewport.name)
       IN  results' = [results EXCEPT ![k] = IF genError # Undefined THEN "skipped"
                                             ELSE "navigated"]
    /\ UNCHANGED <<vIndex, pIndex, sIndex, capPage, pages, loaded, trail, gPc,
                   runVars, otherVars>>

\* the rest of a test body: page.goto, waitForLoadState, hideElements and
\* expect(page).toHaveScreenshot, each of which resolves or throws
TestEnd(k, passed) ==
    /\ gPc = "compare"
    /\ k \in DOMAIN results
    /\ results[k] = "navigated"
    /\ results' = [results EXCEPT ![k] = IF passed THEN "passed" ELSE "failed"]
    /\ UNCHANGED <<vIndex, pIndex, sIndex, capPage, pages, loaded, trail, gPc,
                   runVars, otherVars>>

NextCompare ==
    \/ \E k \in DOMAIN results : TestBegin(k)
    \/ \E k \in DOMAIN results, passed \in BOOLEAN : TestEnd(k, passed)

SpecCompare == InitCompare /\ [][NextCompare]_vars

\* the manifest records an error for the path and viewport of test k
ErrorRecorded(k) ==
    /\ "errors" \in DOMAIN manifests[1]
    /\ \E i \in 1..Len(manifests[1].errors) :
          /\ manifests[1].errors[i].path = RegressionTests(manifests[1], viewports)[k].path
          /\ manifests[1].errors[i].viewport =
                 RegressionTests(manifests[1], viewports)[k].viewport.name

\* C23: the comparison stage skips a (path, viewport) test exactly when the
\* manifest records a GenerationError for that path and that viewport, and
\* navigates for it exactly when there is none; a skipped test is skipped
\* before any navigation and never navigates.
C23_SkipsExactlyRecordedErrors ==
    /\ [](\A k \in DOMAIN results :
            /\ results[k] = "skipped" => ErrorRecorded(k)
            /\ results[k] \in {"navigated", "passed", "failed"} => ~ErrorRecorded(k))
    /\ [][ \A k \in DOMAIN results :
             /\ results'[k] = "skipped" => results[k] \in {"pending", "skipped"}
             /\ results[k] = "skipped" => results'[k] = "skipped" ]_vars

C23_Witness ==
    /\ gPc = "compare"
    /\ Len(viewports) = 2
    /\ Len(manifests[1].paths) = 2
    /\ results = <<"skipped", "passed", "failed", "skipped">>

-----------------------------------------------------------------------------
(* Specification SpecRun: a whole run of the generator script, from the
   reachability test through discovery and capture to the last manifest *)

\* a run is followed with one viewport (several viewports: SpecCapture)
RunViewportLists == { vps \in ViewportLists : Len(vps) = 1 }

\* const crawler = new PageCrawler(baseUrl, config), when no path is given
StartCrawl ==
    /\ bPc = "discover"
    /\ cPc = "idle"
    /\ bPc' = "crawl"
    /\ UNCHANGED <<viewports, paths, files, manifests, errors, genVars, otherVars>>

\* discoveredPaths = await crawler.crawl(page): the list crawl returned; the
\* queue and the log of the call are dropped, the fields of the crawler stay
EndCrawl ==
    /\ bPc = "crawl"
    /\ cPc = "done"
    /\ paths' = returned
    /\ bPc' = "write"
    /\ queue' = <<>>
    /\ site' = EmptyMap
    /\ navigations' = <<>>
    /\ skipped' = {}
    /\ returned' = NotReturned
    /\ cPc' = "idle"
    /\ UNCHANGED <<visited, discoveredPaths, crawlPage, viewports, files, manifests, errors,
                   genVars, normVars, cfgVars, govVars>>

\* await generator.generateScreenshots(browser, discoveredPaths) of the
\* revision that captures in the script itself
BeginCapture ==
    /\ bPc = "write"
    /\ gPc = "idle"
    /\ bPc' = "capture"
    /\ gPc' = "start"
    /\ UNCHANGED <<results, vIndex, pIndex, sIndex, capPage, pages, loaded, trail,
                   viewports, paths, files, manifests, errors, otherVars>>

\* after loadCrawlConfig and the launch of the browser
InitRun ==
    /\ viewports \in RunViewportLists
    /\ paths = <<>>
    /\ files = {}
    /\ manifests = <<>>
    /\ errors = <<>>
    /\ bPc = "start"
    /\ IdleGen
    /\ \E c \in CrawlConfigs : /\ ignoreQueryParams = c.ignoreQueryParams
                               /\ blacklistPatterns = c.blacklistPatterns
    /\ IdleNorm
    /\ IdleGov
    /\ IdleCrawl

NextRun ==
    \/ \E ok \in BOOLEAN : CheckReachable(ok)
    \/ \E path \in PathSet : Discover(<<path>>)
    \/ StartCrawl
    \/ bPc = "crawl" /\ NextCrawl
    \/ EndCrawl
    \/ WriteInitialManifest
    \/ \E passed \in SUBSET (1..(Len(viewports) * Len(paths))) : RunPlaywrightGeneration(passed)
    \/ ScanAndWriteManifest
    \/ BeginCapture
    \/ NextCapture

SpecRun == InitRun /\ [][NextRun]_vars

\* The script is one chain of awaits, each of which resolves or rejects (the
\* navigations have timeouts, the child process exits): the run takes its
\* next step whenever it has one.
SpecRunLive == SpecRun /\ WF_vars(NextRun)

\* the last manifest of the run is written
RunComplete ==
    \/ bPc = "done" /\ Len(manifests) = 2
    \/ bPc = "capture" /\ gPc = "done" /\ Len(manifests) = 1

\* C21: the run exits only from the reachability test at startup, and then
\* nothing was crawled, captured or written; a run that passed the test
\* reaches the write of its last manifest whatever links were rejected and
\* whatever navigations, page loads and screenshots failed.
C21_OnlyStartupAborts ==
    /\ [](bPc = "exited" =>
            /\ manifests = <<>>
            /\ files = {}
            /\ paths = <<>>
            /\ cPc = "idle" /\ visited = {} /\ navigations = <<>> /\ ~crawlPage.governor
            /\ gPc = "idle" /\ pages = <<>> /\ results = <<>> /\ errors = <<>>)
    /\ [][bPc' = "exited" => bPc = "start"]_vars
    /\ [](bPc \notin {"start", "exited"} => <>RunComplete)
    /\ [](RunComplete => []RunComplete)

C21_Witness ==
    /\ RunComplete
    /\ blacklistPatterns # <<>>
    /\ Len(paths) = 2
    /\ visited # discoveredPaths
    /\ \E i \in 1..Len(errors) : errors[i].stage = "load"
    /\ \E i \in 1..Len(errors) : errors[i].stage = "screenshot"
    /\ manifests[1].metadata.totalErrors = 2

\* C22: a page that gets the governor gets it before its first navigation:
\* the page of the crawl and a capture page with the governor are never
\* navigated without the handler in place.
C22_GovernorBeforeNavigation ==
    /\ crawlPage.governor => "bare" \notin crawlPage.navigated
    /\ \A k \in 1..Len(pages) : "extra_timeout" \in pages[k].handlers => ~pages[k].bare

-----------------------------------------------------------------------------
(* Specification SpecViewports: one call of validateViewports *)

DEFAULT_HEIGHT == 720

\* the longest viewport list of the configurations
MaxViewports == 2

LowerCase ==
    { "a", "b", "c", "d", "e", "f", "g", "h", "i", "j", "k", "l", "m",
      "n", "o", "p", "q", "r", "s", "t", "u", "v", "w", "x", "y", "z" }

DecimalDigits == { "0", "1", "2", "3", "4", "5", "6", "7", "8", "9" }

\* VIEWPORT_NAME_PATTERN.test(name) from position i on, as the automaton of
\* /^[a-z][a-z0-9]*(-[a-z0-9]+)*$/: "first" expects [a-z], "body" is after
\* [a-z0-9] and accepts, "dash" is after "-" and expects [a-z0-9]
RECURSIVE PatternTest(_, _, _)
PatternTest(name, i, at) ==
    IF i > Len(name) THEN at = "body"
    ELSE CASE at = "first" -> name[i] \in LowerCase /\ PatternTest(name, i + 1, "body")
           [] at = "body"  -> IF name[i] = "-"
                              THEN PatternTest(name, i + 1, "dash")
                              ELSE /\ name[i] \in LowerCase \cup DecimalDigits
                                   /\ PatternTest(name, i + 1, "body")
           [] at = "dash"  -> /\ name[i] \in LowerCase \cup DecimalDigits
                              /\ PatternTest(name, i + 1, "body")

\* a JavaScript number int + frac/10, or undefined
Num(i, f) == [kind |-> "number", int |-> i, frac |-> f]
UndefinedNumber == [kind |-> "undefined", int |-> 0, frac |-> 0]

\* Number.isInteger(n)
IsInteger(n) == n.kind = "number" /\ n.frac = 0

\* n <= 0 (false for undefined, which compares as NaN)
NotPositive(n) == n.kind = "number" /\ (n.int < 0 \/ (n.int = 0 /\ n.frac = 0))

\* mutant: the set of names seen is never consulted
SeenHas_Never(seen, name) == FALSE

\* seen.has(vp.name)
SeenHas(seen, name) == name \in seen

\* vp.height || DEFAULT_HEIGHT
HeightOrDefault(h) ==
    IF h.kind = "undefined" \/ (h.int = 0 /\ h.frac = 0) THEN Num(DEFAULT_HEIGHT, 0) ELSE h

ValidationError == [threw |-> TRUE, value |-> <<>>]

\* the loop of validateViewports from position i on
RECURSIVE ValidateFrom(_, _, _, _)
ValidateFrom(rawViewports, i, seen, validated) ==
    IF i > Len(rawViewports) THEN [threw |-> FALSE, value |-> validated]
    ELSE Bind(rawViewports[i], LAMBDA vp :
            IF ~PatternTest(vp.name, 1, "first") THEN ValidationError
            ELSE IF SeenHas(seen, vp.name) THEN ValidationError
            ELSE IF ~IsInteger(vp.width) \/ NotPositive(vp.width) THEN ValidationError
            ELSE IF vp.height # UndefinedNumber
                    /\ (~IsInteger(vp.height) \/ NotPositive(vp.height)) THEN ValidationError
            ELSE ValidateFrom(rawViewports, i + 1, seen \cup {vp.name},
                              Append(validated, [name   |-> vp.name,
                                                 width  |-> vp.width,
                                                 height |-> HeightOrDefault(vp.height)])))

validateViewports(rawViewports) ==
    IF Len(rawViewports) = 0 THEN ValidationError
    ELSE ValidateFrom(rawViewports, 1, {}, <<>>)

\* config.viewports: names that the pattern accepts and names it rejects
\* (empty, leading digit, upper case, trailing dash, double dash), widths and
\* heights that are positive integers, zero, negative, fractional or missing
RawViewportNames ==
    { <<"m">>, <<"d">>, <<"m", "-", "8">>,
      <<>>, <<"8", "m">>, <<"M">>, <<"m", "-">>, <<"m", "-", "-", "d">> }

RawNumbers == { Num(1, 0), Num(0, 0), Num(-1, 0), Num(1, 5) }

RawViewports ==
    { [name |-> n, width |-> Num(1, 0), height |-> UndefinedNumber] : n \in RawViewportNames }
      \cup { [name |-> <<"m">>, width |-> w, height |-> h] :
               w \in RawNumbers, h \in RawNumbers \cup {UndefinedNumber, Num(2, 0)} }
      \cup { [name |-> <<"d">>, width |-> Num(2, 0), height |-> Num(2, 0)] }

RECURSIVE ListsUpTo(_, _)
\* the lists of at most n elements of S
ListsUpTo(S, n) ==
    IF n = 0 THEN { <<>> }
    ELSE { <<>> } \cup { <<x>> \o l : x \in S, l \in ListsUpTo(S, n - 1) }

InitViewports ==
    /\ nLink \in ListsUpTo(RawViewports, MaxViewports)
    /\ nResult = NULL
    /\ nPc = "start"
    /\ ignoreQueryParams = TRUE
    /\ blacklistPatterns = <<>>
    /\ IdleGov
    /\ IdleCrawl
    /\ IdleRun
    /\ IdleGen

CallValidateViewports ==
    /\ nPc = "start"
    /\ nResult' = validateViewports(nLink)
    /\ nPc' = "done"
    /\ UNCHANGED <<nLink, cfgVars, govVars, crawlVars, crawlPage, runVars, genVars>>

NextViewports == CallValidateViewports

SpecViewports == InitViewports /\ [][NextViewports]_vars

\* the name is a letter followed by letters and digits, in groups separated
\* by single dashes
WellFormedName(name) ==
    /\ name # <<>>
    /\ name[1] \in LowerCase
    /\ \A i \in 1..Len(name) : name[i] \in LowerCase \cup DecimalDigits \cup {"-"}
    /\ name[Len(name)] # "-"
    /\ \A i \in 1..(Len(name) - 1) : ~(name[i] = "-" /\ name[i + 1] = "-")

PositiveInteger(n) == n.kind = "number" /\ n.frac = 0 /\ n.int > 0

\* the viewport at position i of the raw list is one validateViewports rejects
Rejected(raw, i) ==
    \/ ~WellFormedName(raw[i].name)
    \/ \E j \in 1..(i - 1) : raw[j].name = raw[i].name
    \/ ~PositiveInteger(raw[i].width)
    \/ raw[i].height # UndefinedNumber /\ ~PositiveInteger(raw[i].height)

\* C31: validateViewports throws exactly for an empty list, an invalid or
\* duplicate name, or a width or given height that is not a positive integer;
\* otherwise it returns the viewports in the order of the input, with
\* well-formed pairwise distinct names, positive integer sizes, and height 720
\* where none was given.
C31_ValidateViewports ==
    nPc = "done" =>
        /\ nResult.threw <=> (nLink = <<>> \/ \E i \in 1..Len(nLink) : Rejected(nLink, i))
        /\ ~nResult.threw =>
              /\ Len(nResult.value) = Len(nLink)
              /\ \A i \in 1..Len(nLink) :
                    /\ nResult.value[i].name = nLink[i].name
                    /\ WellFormedName(nResult.value[i].name)
                    /\ nResult.value[i].width = nLink[i].width
                    /\ PositiveInteger(nResult.value[i].width)
                    /\ PositiveInteger(nResult.value[i].height)
                    /\ nResult.value[i].height =
                          IF nLink[i].height = UndefinedNumber
                          THEN Num(DEFAULT_HEIGHT, 0) ELSE nLink[i].height
              /\ \A i, j \in 1..Len(nLink) :
                    nResult.value[i].name = nResult.value[j].name => i = j

C31_Witness ==
    /\ nPc = "done"
    /\ ~nResult.threw
    /\ Len(nResult.value) = 2
    /\ nResult.value[1].name = <<"m", "-", "8">>
    /\ nResult.value[1].height = Num(DEFAULT_HEIGHT, 0)
    /\ nResult.value[2].height = Num(2, 0)

-----------------------------------------------------------------------------
(* Specification SpecNaming: the screenshot name of one pair, computed by     *)
(* the generator, by the regression test and by the generation test, next    *)
(* to the name the generator computes for a second pair                      *)

\* String.prototype.replace with a global pattern of one character
ReplaceAll(s, from, to) == [i \in 1..Len(s) |-> IF s[i] = from THEN to ELSE s[i]]

\* String.prototype.replace(/^c/, "")
RemoveLeading(s, c) == IF Len(s) > 0 /\ s[1] = c THEN SubSeq(s, 2, Len(s)) ELSE s

Homepage == <<"h", "o", "m", "e", "p", "a", "g", "e">>

DotPng == <<".", "p", "n", "g">>

\* mutant: the regression test keeps the leading dash of the slug
screenshotName_KeepsDash(viewport, pagePath) ==
    viewport.name \o <<"-">>
      \o (IF pagePath = <<"/">> THEN Homepage ELSE ReplaceAll(pagePath, "/", "-"))
      \o DotPng

\* safePath and screenshotName of a test of regression.spec.ts
screenshotName(viewport, pagePath) ==
    Bind(IF pagePath = <<"/">>
         THEN Homepage
         ELSE RemoveLeading(ReplaceAll(pagePath, "/", "-"), "-"),
         LAMBDA safePath : viewport.name \o <<"-">> \o safePath \o DotPng)

\* safePath and screenshotName of a test of generation.spec.ts
generationScreenshotName(viewport, pagePath) ==
    Bind(IF pagePath = <<"/">>
         THEN Homepage
         ELSE RemoveLeading(ReplaceAll(pagePath, "/", "-"), "-"),
         LAMBDA safePath : viewport.name \o <<"-">> \o safePath \o DotPng)

\* the paths of a manifest: crawl results and a specificPath given by hand
NamingPaths ==
    { Root, <<"/", "a">>, <<"/", "a", "-", "b">>, <<"/", "a", "/", "b">>,
      <<"/", "a", "/">>, <<"/", "/", "a">>, <<"/", "-", "a">>, <<"a", "/", "b">> }

InitNaming ==
    /\ nLink \in [path : NamingPaths, viewport : { [name |-> n] : n \in RawViewportNames },
                  otherPath : NamingPaths,
                  otherViewport : { [name |-> n] : n \in RawViewportNames }]
    /\ nResult = NULL
    /\ nPc = "start"
    /\ ignoreQueryParams = TRUE
    /\ blacklistPatterns = <<>>
    /\ IdleGov
    /\ IdleCrawl
    /\ IdleRun
    /\ IdleGen

\* the three places that name the screenshot of the pair, and the name of
\* another pair of the run
NameScreenshot ==
    /\ nPc = "start"
    /\ nResult' = [generator  |-> getScreenshotFilename(nLink.path, nLink.viewport.name),
                   regression |-> screenshotName(nLink.viewport, nLink.path),
                   generation |-> generationScreenshotName(nLink.viewport, nLink.path),
                   other      |-> getScreenshotFilename(nLink.otherPath,
                                                        nLink.otherViewport.name)]
    /\ nPc' = "done"
    /\ UNCHANGED <<nLink, cfgVars, govVars, crawlVars, crawlPage, runVars, genVars>>

NextNaming == NameScreenshot

SpecNaming == InitNaming /\ [][NextNaming]_vars

\* "homepage" for "/", otherwise the path with every "/" turned into "-" and
\* without the first character when that is then a "-"
Slug(path) ==
    IF path = <<"/">> THEN <<"h", "o", "m", "e", "p", "a", "g", "e">>
    ELSE LET dashed == [i \in DOMAIN path |-> IF path[i] = "/" THEN "-" ELSE path[i]]
         IN  IF dashed[1] = "-" THEN [i \in 1..(Len(dashed) - 1) |-> dashed[i + 1]]
             ELSE dashed

\* C32: for every path and viewport name the generator, the regression test
\* and the generation test compute the same file name, which is the viewport
\* name, "-", the slug of the path and ".png".
C32_SameScreenshotName ==
    nPc = "done" =>
        /\ nResult.generator = nLink.viewport.name \o <<"-">> \o Slug(nLink.path)
                                 \o <<".", "p", "n", "g">>
        /\ nResult.regression = nResult.generator
        /\ nResult.generation = nResult.generator

C32_Witness ==
    /\ nPc = "done"
    /\ nLink.path = <<"/", "a", "/", "b">>
    /\ nLink.viewport.name = <<"m", "-", "8">>
    /\ nResult.regression = <<"m", "-", "8", "-", "a", "-", "b", ".", "p", "n", "g">>
    /\ nResult.generator = nResult.regression

-----------------------------------------------------------------------------
(* Specification SpecRunner: one run of runVisualTests with injected         *)
(* dependencies (run-visual-tests.ts)                                        *)

\* a value of type number | string, as its type and its text
Value(t, text) == [type |-> t, text |-> text]

\* a === b
StrictEquals(a, b) == a.type = b.type /\ a.text = b.text

\* what runAllTestsWithConfig resolves to, or "throws" when it rejects
TestResults ==
    { Value("string", "passed"), Value("string", "failed"), Value("string", "timedout"),
      Value("string", "0"), Value("number", "0"), Value("number", "1"),
      Value("throws", "") }

\* what loadConfig resolves to, or "throws" when it rejects
ConfigResults == { "config", "null", "throws" }

\* deps.processExit: process.exit, which ends the process, or the mock of the
\* tests, which throws Error(`process.exit(${code})`)
ExitModes == { "terminates", "throws" }

\* process.argv[2]: absent, empty, or a string
PagePaths == { NULL, <<>>, Root, <<"/", "a">>, <<"a">>, <<"a", "/">> }

\* the truthiness of pagePath
Truthy(pagePath) == pagePath # NULL /\ pagePath # <<>>

\* mutant: every path is taken to start with "/"
StartsWithSlash_Always(pagePath) == TRUE

\* pagePath.startsWith("/")
StartsWithSlash(pagePath) == Len(pagePath) > 0 /\ pagePath[1] = "/"

\* a call of a dependency, added to the calls made so far
Called(calls, fn, arg) == Append(calls, [fn |-> fn, arg |-> arg])

\* deps.processExit(code) inside the try block: the process ends, or the mock
\* throws its error
ProcessExit(calls, code, mode) ==
    [calls  |-> Called(calls, "processExit", code),
     pc     |-> IF mode = "terminates" THEN "exited" ELSE "thrown",
     thrown |-> IF mode = "terminates" THEN "none" ELSE "process.exit("]

\* a dependency rejected inside the try block; the errors of loadConfig and
\* of runAllTestsWithConfig are Playwright's, whose messages do not start
\* with "process.exit("
DependencyRejected(calls) == [calls |-> calls, pc |-> "thrown", thrown |-> "other"]

\* the try block goes on to the next await
Awaiting(calls, pc) == [calls |-> calls, pc |-> pc, thrown |-> "none"]

\* mutant: the catch block takes no error for the one of the processExit mock
IsProcessExitError_Never(thrown) == FALSE

\* error instanceof Error && error.message.startsWith("process.exit(")
IsProcessExitError(thrown) == thrown = "process.exit("

\* the catch block: rethrow the error of the processExit mock, otherwise
\* report the error and processExit(1), which here ends the process or throws
\* out of runVisualTests
Catch(r, mode) ==
    IF r.pc # "thrown" THEN [calls |-> r.calls, pc |-> r.pc]
    ELSE IF IsProcessExitError(r.thrown) THEN [calls |-> r.calls, pc |-> "rejected"]
    ELSE [calls |-> Called(r.calls, "processExit", "1"),
          pc    |-> IF mode = "terminates" THEN "exited" ELSE "rejected"]

\* const exitCode = result === "passed" || result === 0 ? 0 : 1
ExitCode(result) ==
    IF StrictEquals(result, Value("string", "passed"))
         \/ StrictEquals(result, Value("number", "0"))
    THEN "0" ELSE "1"

InitRunner ==
    /\ nLink \in [pagePath : PagePaths, loadConfig : ConfigResults,
                  runAllTestsWithConfig : TestResults, processExit : ExitModes]
    /\ nResult = NULL
    /\ nPc = "start"
    /\ ignoreQueryParams = TRUE
    /\ blacklistPatterns = <<>>
    /\ IdleGov
    /\ IdleCrawl
    /\ IdleRun
    /\ IdleGen

RunnerUnchanged ==
    UNCHANGED <<nLink, nResult, cfgVars, govVars, crawlVars, crawlPage, runVars,
                results, vIndex, pIndex, sIndex, capPage, pages, loaded, gPc>>

\* 1. validate the path, 2. call loadConfig
ValidatePath ==
    /\ nPc = "start"
    /\ LET r == IF Truthy(nLink.pagePath) /\ ~StartsWithSlash(nLink.pagePath)
                THEN ProcessExit(trail, "1", nLink.processExit)
                ELSE Awaiting(Called(trail, "loadConfig", ""), "loadConfig")
           s == Catch(r, nLink.processExit)
       IN  trail' = s.calls /\ nPc' = s.pc
    /\ RunnerUnchanged

\* loadConfig settles: exit when there is no config, 3. call runAllTestsWithConfig
ConfigLoaded ==
    /\ nPc = "loadConfig"
    /\ LET r == IF nLink.loadConfig = "throws" THEN DependencyRejected(trail)
                ELSE IF nLink.loadConfig = "null"
                THEN ProcessExit(trail, "1", nLink.processExit)
                ELSE Awaiting(Called(trail, "runAllTestsWithConfig", ""),
                              "runAllTestsWithConfig")
           s == Catch(r, nLink.processExit)
       IN  trail' = s.calls /\ nPc' = s.pc
    /\ RunnerUnchanged

\* runAllTestsWithConfig settles: 4. the exit code, 5. processExit(exitCode)
TestsFinished ==
    /\ nPc = "runAllTestsWithConfig"
    /\ LET r == IF nLink.runAllTestsWithConfig.type = "throws" THEN DependencyRejected(trail)
                ELSE ProcessExit(trail, ExitCode(nLink.runAllTestsWithConfig),
                                 nLink.processExit)
           s == Catch(r, nLink.processExit)
       IN  trail' = s.calls /\ nPc' = s.pc
    /\ RunnerUnchanged

NextRunner == ValidatePath \/ ConfigLoaded \/ TestsFinished

SpecRunner == InitRunner /\ [][NextRunner]_vars

\* the calls of a dependency made so far
CallsOf(fn) == SelectSeq(trail, LAMBDA c : c.fn = fn)

\* runVisualTests has ended: the process has exited or the promise is rejected
RunnerEnded == nPc \in {"exited", "rejected"}

InvalidPath == Truthy(nLink.pagePath) /\ nLink.pagePath[1] # "/"

RunPassed ==
    /\ ~InvalidPath
    /\ nLink.loadConfig = "config"
    /\ \/ nLink.runAllTestsWithConfig = [type |-> "string", text |-> "passed"]
       \/ nLink.runAllTestsWithConfig = [type |-> "number", text |-> "0"]

-----------------------------------------------------------------------------
(* Specification SpecComplete: the test of completeness.spec.ts; trail holds *)
(* the paths skipped so far, results the paths navigated                     *)

\* mutant: one error of the path is enough
hasAllViewportsErrored_AnyError(manifest, pagePath) ==
    IF "errors" \notin DOMAIN manifest THEN FALSE
    ELSE Len(SelectSeq(manifest.errors, LAMBDA e : e.path = pagePath)) >= 1

\* if (!manifest.errors?.length) return false;
\* return manifest.errors.filter((e) => e.path === pagePath).length
\*          >= manifest.viewports.length
hasAllViewportsErrored(manifest, pagePath) ==
    IF "errors" \notin DOMAIN manifest THEN FALSE
    ELSE IF Len(manifest.errors) = 0 THEN FALSE
    ELSE Bind(SelectSeq(manifest.errors, LAMBDA e : e.path = pagePath),
              LAMBDA pathErrors : Len(pathErrors) >= Len(manifest.viewports))

\* response?.status() ?? 0
Statuses == { 200, 404, 0 }

InitComplete ==
    /\ viewports \in ViewportLists
    /\ manifests \in { <<m>> : m \in ManifestsOnDisk(viewports) }
    /\ results = <<>>
    /\ paths = <<>>
    /\ files = {}
    /\ errors = <<>>
    /\ bPc = "idle"
    /\ vIndex = 0
    /\ pIndex = 1
    /\ sIndex = 0
    /\ capPage = 0
    /\ pages = <<>>
    /\ loaded = FALSE
    /\ trail = <<>>
    /\ gPc = "completeness"
    /\ ignoreQueryParams = TRUE
    /\ blacklistPatterns = <<>>
    /\ IdleNorm
    /\ IdleGov
    /\ IdleCrawl

\* one round of the loop over manifest.paths: skip the path, or page.goto
\* and results.push
CheckPath(status) ==
    /\ gPc = "completeness"
    /\ pIndex <= Len(manifests[1].paths)
    /\ LET pagePath == manifests[1].paths[pIndex]
       IN  IF hasAllViewportsErrored(manifests[1], pagePath)
           THEN /\ trail' = Append(trail, pagePath)
                /\ UNCHANGED results
           ELSE /\ results' = Append(results, [path |-> pagePath, status |-> status,
                                               ok |-> status = 200])
                /\ UNCHANGED trail
    /\ pIndex' = pIndex + 1
    /\ UNCHANGED <<vIndex, sIndex, capPage, pages, loaded, gPc, runVars, otherVars>>

\* after the loop: the test throws when a result is not ok
ReportFailures ==
    /\ gPc = "completeness"
    /\ pIndex > Len(manifests[1].paths)
    /\ gPc' = IF SelectSeq(results, LAMBDA r : ~r.ok) # <<>> THEN "failed" ELSE "passed"
    /\ UNCHANGED <<results, vIndex, pIndex, sIndex, capPage, pages, loaded, trail,
                   runVars, otherVars>>

NextComplete == (\E status \in Statuses : CheckPath(status)) \/ ReportFailures

SpecComplete == InitComplete /\ [][NextComplete]_vars

\* the manifest records an error of the path for every one of its viewports
ErroredForEveryViewport(manifest, pagePath) ==
    /\ "errors" \in DOMAIN manifest
    /\ \A v \in 1..Len(manifest.viewports) :
          \E i \in 1..Len(manifest.errors) :
             /\ manifest.errors[i].path = pagePath
             /\ manifest.errors[i].viewport = manifest.viewports[v].name

\* the manifest records an error of the path for one of its viewports
ErroredForSomeViewport(manifest, pagePath) ==
    /\ "errors" \in DOMAIN manifest
    /\ \E i \in 1..Len(manifest.errors) : manifest.errors[i].path = pagePath

\* C35: a path of the manifest that the loop has passed is skipped if and
\* only if the manifest records an error of it for every viewport; every
\* other path, also one with an error for only some viewports, is navigated.
C35_SkipsOnlyFullyErroredPaths ==
    \A k \in 1..Len(manifests[1].paths) :
       k < pIndex =>
          LET pagePath == manifests[1].paths[k]
              isSkipped == \E i \in 1..Len(trail) : trail[i] = pagePath
              isChecked == \E i \in 1..Len(results) : results[i].path = pagePath
          IN  /\ isSkipped <=> ErroredForEveryViewport(manifests[1], pagePath)
              /\ isChecked <=> ~isSkipped

C35_Witness ==
    /\ gPc = "passed"
    /\ Len(viewports) = 2
    /\ Len(trail) = 1
    /\ Len(results) = 1
    /\ ErroredForSomeViewport(manifests[1], results[1].path)
    /\ ErroredForEveryViewport(manifests[1], trail[1])

-----------------------------------------------------------------------------
(* Accounting of the capture stage, under SpecGenerate *)

\* the run has written its last manifest
CaptureFinished == gPc = "done" \/ bPc = "done"

\* the outcomes of a pair at the end of the run: its entries in results
\* (ScreenshotGenerator) or its file found by the scan (generateBaseline),
\* and its entries in errors
Artifacts(pr) ==
    IF gPc = "done"
    THEN Len(SelectSeq(results, LAMBDA r : r.path = pr.path /\ r.viewport = pr.viewport.name))
    ELSE IF getScreenshotFilename(pr.path, pr.viewport.name) \in files THEN 1 ELSE 0

ErrorsOf(pr) ==
    Len(SelectSeq(errors, LAMBDA e : e.path = pr.path /\ e.viewport = pr.viewport.name))

\* C36: when the capture stage has finished every (path, viewport) pair has
\* exactly one outcome, a screenshot artifact or one GenerationError, and in
\* the final manifest totalScreenshots + totalErrors is totalPaths times the
\* number of viewports.
C36_CaptureAccounting ==
    CaptureFinished =>
        Bind(manifests[Len(manifests)], LAMBDA manifest :
            /\ manifest.errors = errors
            /\ \A k \in 1..(Len(viewports) * Len(paths)) :
                  Artifacts(ExpectedPairs(viewports, paths)[k])
                    + ErrorsOf(ExpectedPairs(viewports, paths)[k]) = 1
            /\ manifest.metadata.totalScreenshots + manifest.metadata.totalErrors
                 = manifest.metadata.totalPaths * Len(manifest.viewports))

C36_Witness ==
    /\ bPc = "done"
    /\ Len(viewports) = 2
    /\ Len(paths) = 2
    /\ manifests[2].metadata.totalScreenshots = 3
    /\ manifests[2].metadata.totalErrors = 1

\* the same accounting at the end of generateScreenshots
C36_WitnessCapture ==
    /\ gPc = "done"
    /\ Len(viewports) = 2
    /\ Len(paths) = 2
    /\ manifests[1].metadata.totalScreenshots = 2
    /\ manifests[1].metadata.totalErrors = 2

-----------------------------------------------------------------------------
(* Uniqueness of the screenshot names, under SpecNaming *)

\* a viewport name validateViewports accepts and a path without a trailing
\* slash that starts with a single "/"
ValidPair(viewport, path) ==
    /\ PatternTest(viewport.name, 1, "first")
    /\ Canonical(path)
    /\ Len(path) > 0
    /\ path[1] = "/"
    /\ \A i \in 1..(Len(path) - 1) : ~(path[i] = "/" /\ path[i + 1] = "/")

\* C37: two different (viewport name, path) pairs with valid viewport names
\* and canonical paths never get the same file name.
C37_FileNamesUnique ==
    (/\ nPc = "done"
     /\ ValidPair(nLink.viewport, nLink.path)
     /\ ValidPair(nLink.otherViewport, nLink.otherPath)
     /\ <<nLink.viewport.name, nLink.path>> # <<nLink.otherViewport.name, nLink.otherPath>>)
        => nResult.generator # nResult.other

-----------------------------------------------------------------------------
(* Exclusion patterns, under SpecCrawl and SpecRun *)

\* C38: no path that matches an exclusion pattern is navigated by the crawl,
\* returned by it, or written to the paths of a manifest, the root included.
C38_ExcludedNeverCrawled ==
    /\ \A i \in 1..Len(navigations) : ~isBlacklisted(navigations[i], blacklistPatterns)
    /\ returned # NotReturned =>
          \A i \in 1..Len(returned) : ~isBlacklisted(returned[i], blacklistPatterns)
    /\ \A m \in 1..Len(manifests) :
          \A i \in 1..Len(manifests[m].paths) :
             ~isBlacklisted(manifests[m].paths[i], blacklistPatterns)

-----------------------------------------------------------------------------
(* Further properties of the governor, under SpecGov *)

\* C39: every entry of the attempt table holds a value from 1 to the
\* ceiling, in every reachable state of an installation.
C39_CounterWithinCeiling ==
    \A url \in DOMAIN requestAttempts :
        requestAttempts[url] >= 1 /\ requestAttempts[url] <= maxAttempts

C39_Witness ==
    /\ requestAttempts # EmptyMap
    /\ \A url \in DOMAIN requestAttempts : requestAttempts[url] = maxAttempts
    /\ \E i \in 1..Len(routes) : routes[i].rule = "ceiling"
    /\ \E i \in 1..Len(routes) : routes[i].timer = "fired"
    /\ \E i \in 1..Len(routes) : routes[i].promise = "rejected"

\* the attempts of the URL that timed out or whose continue was rejected
FailedAttempts(url) ==
    { i \in 1..Len(routes) :
        /\ routes[i].url = url
        /\ routes[i].rule = "tracked"
        /\ (routes[i].timer = "fired" \/ routes[i].promise = "rejected") }

\* C40: the firing of a timer and the rejection of a continue leave the
\* attempt table as it is, and a request for a foreign URL that has failed
\* twice in this installation is aborted immediately as timed out.
C40_FailureNeverForgiven ==
    [][ /\ \A i \in 1..Len(routes) :
              ( \/ routes[i].timer = "armed" /\ routes'[i].timer = "fired"
                \/ routes[i].promise = "pending" /\ routes'[i].promise = "rejected" )
              => requestAttempts' = requestAttempts
        /\ ( /\ IsHandlerStep
             /\ Cardinality(FailedAttempts(NewRoute.url)) >= maxAttempts )
           => /\ NewRoute.rule = "ceiling"
              /\ NewRoute.abortReason = "timedout"
              /\ ~NewRoute.continued ]_vars

====
